---- MODULE Spec2Model ----
(***************************************************************************)
(* A model of the synthetic-event generator: the simulation engine         *)
(* (src/src/simulation.py), the behaviour model and agent factory          *)
(* (src/src/agents.py), the agent and guild entities (src/src/models.py),  *)
(* the world (src/src/world.py) and the event emitter (src/src/events.py). *)
(*                                                                         *)
(* A Simulator instance is one record (its attributes are the record's     *)
(* fields); the engine's handlers are operators from a Simulator record    *)
(* and the pseudo-random draws they consume to the next record.  Two       *)
(* instances, simA and simB, exist so that runs can be compared.           *)
(*                                                                         *)
(* Numbers: a value of rng.random() is an integer number of hundredths     *)
(* (0..99); a probability or multiplier is an exact fraction [n, d];       *)
(* money is in cents; a timestamp is a number of seconds since 00:00:00    *)
(* of the first simulated day.                                             *)
(***************************************************************************)
EXTENDS Integers, Sequences, FiniteSets, TLC

(***************************************************************************)
(* Bounds of the model.                                                    *)
(***************************************************************************)
\* simulation.duration_days of the runs explored
DurationDays == 3
\* installs.total of the runs explored
TotalInstalls == 2
\* iterations of the session action loop, over a whole run, in which an
\* action other than the idle tick is drawn
MaxActions == 2
\* the same in the runs that explore the guild branches only, and in those
\* that explore the gacha, ad and shop branches only
MaxGuildActions == 3
MaxGachaActions == 3
\* agent-days, over a whole run, on which an agent returns after its
\* install day
MaxReturns == 2
\* largest pity counter the pure gacha specification starts a roll from
MaxPity == 6
\* largest day-since-install the pure retention specification evaluates
MaxRetentionDay == 91
\* simulation.duration_days of the long runs explored (one install)
LongDays == 32
\* simulation.duration_days of the runs in which loop actions are explored
PlayDays == 1

\* a value handed to the rest of a computation: the local variable
\* assignments of a method body, in order
Then(value, rest(_)) == rest(value)

(***************************************************************************)
(* Exact fractions.                                                        *)
(***************************************************************************)
RECURSIVE Gcd(_, _)
Gcd(a, b) == IF b = 0 THEN a ELSE Gcd(b, a % b)

Frac(n, d) == LET g == Gcd(n, d) IN IF g = 0 THEN [n |-> 0, d |-> 1] ELSE [n |-> n \div g, d |-> d \div g]

FMul(p, q) == Frac(p.n * q.n, p.d * q.d)

FAdd(p, q) == Frac(p.n * q.d + q.n * p.d, p.d * q.d)

\* a/b < c/d for a, c >= 0 and b, d > 0, without forming a product
RECURSIVE LessQ(_, _, _, _)
LessQ(a, b, c, d) ==
    LET qa == a \div b
        qc == c \div d
        ra == a % b
        rc == c % d
    IN  IF qa # qc THEN qa < qc
        ELSE IF rc = 0 THEN FALSE
        ELSE IF ra = 0 THEN TRUE
        ELSE LessQ(d, rc, b, ra)

FLess(p, q) == LessQ(p.n, p.d, q.n, q.d)

FLeq(p, q) == ~FLess(q, p)

FMin(p, q) == IF FLess(q, p) THEN q ELSE p

One == [n |-> 1, d |-> 1]

\* int(x) of a non-negative fraction
FloorF(p) == p.n \div p.d

\* rng.random() < p, the draw being value hundredths
DrawBelow(value, p) == FLess(Frac(value, 100), p)

RECURSIVE Pow(_, _)
Pow(b, e) == IF e <= 0 THEN 1 ELSE b * Pow(b, e - 1)

\* int(base * mult ** k) for a non-negative integer k
IntPow(base, mult, k) == (base * Pow(mult.n, k)) \div Pow(mult.d, k)

RECURSIVE SumSeq(_)
SumSeq(q) == IF q = <<>> THEN 0 ELSE Head(q) + SumSeq(Tail(q))

\* the values of rng.random() the model draws
Draws == {0, 20, 40, 99}
\* the values drawn where only the two outcomes of a comparison matter
Coin == {0, 99}


(***************************************************************************)
(* The configuration consumed by the engine (SimulationConfig).  One       *)
(* validated configuration; the pure-function specifications below range   *)
(* over further configurations of the functions they check.                *)
(***************************************************************************)
PlayerTypes == <<"whale", "free_casual">>

Rarities == <<"legendary", "epic", "rare", "common">>

player_types ==
    [whale |->
        [share |-> Frac(1, 2),
         retention |-> [d1 |-> Frac(60, 100), d7 |-> Frac(40, 100),
                        d30 |-> Frac(20, 100), d90 |-> Frac(10, 100)],
         gacha_desire |-> Frac(30, 100),
         ad_watch_probability |-> Frac(50, 100),
         arena_engagement |-> Frac(50, 100),
         guild_engagement |-> Frac(50, 100)],
     free_casual |->
        [share |-> Frac(1, 2),
         retention |-> [d1 |-> Frac(40, 100), d7 |-> Frac(20, 100),
                        d30 |-> Frac(10, 100), d90 |-> Frac(5, 100)],
         gacha_desire |-> Frac(30, 100),
         ad_watch_probability |-> Frac(50, 100),
         arena_engagement |-> Frac(50, 100),
         guild_engagement |-> Frac(50, 100)]]

\* ab_tests, in configuration order; activation is TRUE for a test whose
\* activation_condition names days_since_install, and days_since_install is
\* the number of days the condition asks for (0 without a condition)
ab_tests ==
    << [name |-> "onboarding_length", enabled |-> TRUE, activation |-> FALSE,
        days_since_install |-> 0,
        variants |-> <<"control", "short", "extended">>,
        weights |-> <<Frac(34, 100), Frac(33, 100), Frac(33, 100)>>],
       [name |-> "late_game_offer", enabled |-> TRUE, activation |-> TRUE,
        days_since_install |-> 30,
        variants |-> <<"control", "offer">>,
        weights |-> <<Frac(1, 2), Frac(1, 2)>>],
       [name |-> "energy_regen_rate", enabled |-> FALSE, activation |-> FALSE,
        days_since_install |-> 0,
        variants |-> <<"control", "fast">>,
        weights |-> <<Frac(1, 2), Frac(1, 2)>>],
       [name |-> "comeback_offer", enabled |-> TRUE, activation |-> TRUE,
        days_since_install |-> 2,
        variants |-> <<"control", "gift">>,
        weights |-> <<Frac(1, 2), Frac(1, 2)>>] >>

\* ab_tests.<test>.effects.<variant>: the retention multipliers; a variant
\* without an entry has every multiplier 1.0
ab_effects ==
    [onboarding_length |->
        [control |-> [d1_retention_mult |-> One, d7_retention_mult |-> One],
         short |-> [d1_retention_mult |-> Frac(9, 10), d7_retention_mult |-> Frac(9, 10)],
         extended |-> [d1_retention_mult |-> Frac(11, 10), d7_retention_mult |-> One]],
     late_game_offer |->
        [control |-> [d30_d60_retention_mult |-> One, iap_conversion_mult |-> One],
         offer |-> [d30_d60_retention_mult |-> One, iap_conversion_mult |-> Frac(3, 2)]]]

gacha_rates ==
    [legendary |-> Frac(10, 100), epic |-> Frac(20, 100),
     rare |-> Frac(30, 100), common |-> Frac(40, 100)]

Config ==
    [duration_days |-> DurationDays,
     total_installs |-> TotalInstalls,
     player_types |-> player_types,
     ab_tests |-> ab_tests,
     ab_effects |-> ab_effects,
     gacha_rates |-> gacha_rates,
     pity_threshold |-> 4,
     soft_pity_start |-> 2,
     soft_pity_rate_boost |-> Frac(20, 100),
     gacha_single_cost |-> 10,
     gacha_multi_cost |-> 30,
     stage_energy_cost |-> 6,
     initial_gold |-> 250,
     initial_gems |-> 10,
     initial_summon_tickets |-> 1,
     initial_energy |-> 12,
     max_energy |-> 12,
     max_ads_per_day |-> 1,
     ad_reward_gems |-> 5,
     arena_attempt_cost_gems |-> 10,
     arena_rating_k_factor |-> 32,
     guild_count |-> 2,
     guild_max_members |-> 1,
     total_chapters |-> 2,
     stages_per_chapter |-> 2,
     player_level_max |-> 100,
     exp_per_level_base |-> 10,
     exp_per_level_mult |-> Frac(2, 1),
     feature_unlocks |-> [arena |-> 1, guild |-> 2, daily_quests |-> 2],
     hero_pool |-> [common |-> 2, rare |-> 1, epic |-> 1, legendary |-> 2],
     hero_base_power |-> [common |-> 100, rare |-> 150, epic |-> 200, legendary |-> 300],
     shop_products |->
        [starter_pack |-> [price_usd |-> 100, gems |-> 20, summon_tickets |-> 1],
         monthly_pass |-> [price_usd |-> 500, gems |-> 10, summon_tickets |-> 0],
         gems_tier1 |-> [price_usd |-> 100, gems |-> 10, summon_tickets |-> 0],
         gems_tier2 |-> [price_usd |-> 500, gems |-> 60, summon_tickets |-> 0],
         gems_tier3 |-> [price_usd |-> 1000, gems |-> 130, summon_tickets |-> 0],
         gems_tier4 |-> [price_usd |-> 2000, gems |-> 280, summon_tickets |-> 0],
         gems_tier5 |-> [price_usd |-> 5000, gems |-> 750, summon_tickets |-> 0]],
     monthly_gems_daily |-> 10,
     vip_levels |-> <<[level |-> 1, threshold |-> 100], [level |-> 2, threshold |-> 1000]>>]

(***************************************************************************)
(* get_ab_group: the variant of a user in a test.  hash_value is           *)
(* int(md5("seed:test_name:user_id").hexdigest(), 16) % 10000.             *)
(***************************************************************************)
RECURSIVE ab_select(_, _, _, _, _, _)
ab_select(variants, weights, total, random_value, i, cumulative) ==
    IF i > Len(variants) \/ i > Len(weights) THEN variants[Len(variants)]
    ELSE LET c == FAdd(cumulative, FMul(weights[i], Frac(total.d, total.n)))
         IN  IF FLess(random_value, c) THEN variants[i]
             ELSE ab_select(variants, weights, total, random_value, i + 1, c)

RECURSIVE FSum(_)
FSum(q) == IF q = <<>> THEN Frac(0, 1) ELSE FAdd(Head(q), FSum(Tail(q)))

get_ab_group(hash_value, variants, weights) ==
    ab_select(variants, weights, FSum(weights), Frac(hash_value, 10000), 1, Frac(0, 1))

(***************************************************************************)
(* AgentBehavior.get_retention_probability.                                *)
(***************************************************************************)
HasTest(agent, test) == test \in DOMAIN agent.ab_tests

_get_ab_retention_modifier(cfg, agent, day) ==
    LET onboarding ==
            IF HasTest(agent, "onboarding_length")
            THEN LET e == cfg.ab_effects.onboarding_length[agent.ab_tests["onboarding_length"]]
                 IN  IF day = 1 THEN e.d1_retention_mult
                     ELSE IF day <= 7 THEN e.d7_retention_mult
                     ELSE One
            ELSE One
        late_game ==
            IF HasTest(agent, "late_game_offer") /\ 30 <= day /\ day <= 60
            THEN cfg.ab_effects.late_game_offer[agent.ab_tests["late_game_offer"]].d30_d60_retention_mult
            ELSE One
    IN  FMul(onboarding, late_game)

\* d_lo * (1 - t) + d_hi * t with t = k / span
Interpolate(d_lo, d_hi, k, span) ==
    FAdd(FMul(d_lo, Frac(span - k, span)), FMul(d_hi, Frac(k, span)))

retention_base(retention, day) ==
    IF day = 1 THEN retention.d1
    ELSE IF day <= 7 THEN Interpolate(retention.d1, retention.d7, day - 1, 6)
    ELSE IF day <= 30 THEN Interpolate(retention.d7, retention.d30, day - 7, 23)
    ELSE IF day <= 90 THEN Interpolate(retention.d30, retention.d90, day - 30, 60)
    ELSE FMul(retention.d90, Frac(8, 10))

retention_modifiers(cfg, agent, day) ==
    LET m1 == agent.source_retention_mod
    IN
    Then(FMul(m1, _get_ab_retention_modifier(cfg, agent, day)), LAMBDA m2 :
    Then(IF agent.consecutive_losses > 3 THEN FMul(m2, Frac(85, 100)) ELSE m2, LAMBDA m3 :
    Then(IF agent.got_legendary_recently THEN FMul(m3, Frac(115, 100)) ELSE m3, LAMBDA m4 :
    Then(IF agent.guild_id # 0 THEN FMul(m4, Frac(110, 100)) ELSE m4, LAMBDA m5 :
    LET m6 == IF agent.is_bot THEN FMul(m5, Frac(3, 10)) ELSE m5
    IN  m6))))

get_retention_probability(cfg, agent, day_since_install) ==
    IF day_since_install = 0 THEN One
    ELSE FMin(FMul(retention_base(cfg.player_types[agent.agent_type].retention,
                                  day_since_install),
                   retention_modifiers(cfg, agent, day_since_install)),
              Frac(99, 100))

\* will_return_today, the draw being value hundredths
will_return_today(cfg, agent, day_since_install, value) ==
    IF agent.is_churned THEN FALSE
    ELSE DrawBelow(value, get_retention_probability(cfg, agent, day_since_install))

(***************************************************************************)
(* AgentBehavior.roll_gacha.  rates_obj is the configured rates object;    *)
(* the result holds the rolled rarity, the rates the draw was compared     *)
(* against and the configured rates object as the roll leaves it.          *)
(***************************************************************************)
\* the soft-pity boost without the rescaling of the other rates
soft_pity_rates_boost_only(cfg, rates, pity) ==
    [rates EXCEPT !.legendary =
        FMin(FAdd(@, FMul(Frac(pity - cfg.soft_pity_start + 1, 1), cfg.soft_pity_rate_boost)),
             One)]

soft_pity_rates(cfg, rates, pity) ==
    LET boost_amount == FMul(Frac(pity - cfg.soft_pity_start + 1, 1), cfg.soft_pity_rate_boost)
    IN
    Then(FMin(FAdd(rates.legendary, boost_amount), One), LAMBDA legendary :
    LET remaining == Frac(legendary.d - legendary.n, legendary.d)
    IN
    Then(FAdd(rates.common, FAdd(rates.rare, rates.epic)), LAMBDA non_legendary_total :
    Then(FMul(remaining, Frac(non_legendary_total.d, non_legendary_total.n)), LAMBDA factor :
        IF non_legendary_total.n > 0
        THEN [legendary |-> legendary, epic |-> FMul(rates.epic, factor),
              rare |-> FMul(rates.rare, factor), common |-> FMul(rates.common, factor)]
        ELSE [rates EXCEPT !.legendary = legendary])))

roll_rates(cfg, rates_obj, pity) ==
    IF pity >= cfg.soft_pity_start THEN soft_pity_rates(cfg, rates_obj, pity) ELSE rates_obj

RECURSIVE roll_select(_, _, _, _)
roll_select(rates, value, i, cumulative) ==
    IF i > Len(Rarities) THEN "common"
    ELSE LET c == FAdd(cumulative, rates[Rarities[i]])
         IN  IF DrawBelow(value, c) THEN Rarities[i]
             ELSE roll_select(rates, value, i + 1, c)

\* a roll whose hard pity starts one pull late
roll_gacha_late_pity(cfg, rates_obj, pity, value) ==
    IF pity >= cfg.pity_threshold
    THEN [rarity |-> "legendary", rates |-> rates_obj, config_rates |-> rates_obj, hard |-> TRUE]
    ELSE LET rates == roll_rates(cfg, rates_obj, pity)
         IN  [rarity |-> roll_select(rates, value, 1, Frac(0, 1)),
              rates |-> rates, config_rates |-> rates_obj, hard |-> FALSE]

\* a roll that applies the soft pity to the rates of the configuration
\* themselves instead of a copy
roll_gacha_in_place(cfg, rates_obj, pity, value) ==
    IF pity >= cfg.pity_threshold - 1
    THEN [rarity |-> "legendary", rates |-> rates_obj, config_rates |-> rates_obj, hard |-> TRUE]
    ELSE LET rates == roll_rates(cfg, rates_obj, pity)
         IN  [rarity |-> roll_select(rates, value, 1, Frac(0, 1)),
              rates |-> rates, config_rates |-> rates, hard |-> FALSE]

roll_gacha(cfg, rates_obj, pity, value) ==
    IF pity >= cfg.pity_threshold - 1
    THEN [rarity |-> "legendary", rates |-> rates_obj, config_rates |-> rates_obj, hard |-> TRUE]
    ELSE LET rates == roll_rates(cfg, rates_obj, pity)
         IN  [rarity |-> roll_select(rates, value, 1, Frac(0, 1)),
              rates |-> rates, config_rates |-> rates_obj, hard |-> FALSE]


(***************************************************************************)
(* Heroes (HeroTemplate, HeroInstance) and the agent's collection.         *)
(* A hero id is <<rarity, index>>; its template is decided by the rarity.  *)
(***************************************************************************)
HeroIds(cfg) ==
    UNION {{<<r, i>> : i \in 1..cfg.hero_pool[r]} : r \in {"common", "rare", "epic", "legendary"}}

get_heroes_by_rarity(cfg, rarity) == [i \in 1..cfg.hero_pool[rarity] |-> <<rarity, i>>]

\* HeroInstance.power
power(cfg, hero_id, instance) ==
    LET base == cfg.hero_base_power[hero_id[1]]
        level_bonus == (instance.level - 1) * 10
    IN  ((base + level_bonus) * Pow(6, instance.stars - 1)) \div Pow(5, instance.stars - 1)

RECURSIVE team_sum(_, _, _)
team_sum(cfg, heroes, team) ==
    IF team = <<>> THEN 0
    ELSE (IF Head(team) \in DOMAIN heroes THEN power(cfg, Head(team), heroes[Head(team)]) ELSE 0)
         + team_sum(cfg, heroes, Tail(team))

\* a calculate_team_power that leaves team_power as it was
calculate_team_power_stale(cfg, agent) == agent

\* AgentState.calculate_team_power
calculate_team_power(cfg, agent) ==
    [agent EXCEPT !.team_power = team_sum(cfg, agent.heroes, agent.team)]

\* an add_hero that puts a hero the agent already owns into the team again
add_hero_again_in_team(cfg, agent, hero_id) ==
    LET owned == [h \in DOMAIN agent.heroes \cup {hero_id} |->
                     IF h \in DOMAIN agent.heroes THEN agent.heroes[h]
                     ELSE [level |-> 1, stars |-> 1, duplicates |-> 0]]
        a1 == [agent EXCEPT !.heroes = owned,
                            !.hero_order = IF hero_id \in DOMAIN agent.heroes THEN @
                                           ELSE Append(@, hero_id)]
    IN  IF Len(agent.team) < 5
        THEN calculate_team_power(cfg, [a1 EXCEPT !.team = Append(@, hero_id)])
        ELSE a1

\* AgentState.add_hero: the agent afterwards
add_hero(cfg, agent, hero_id) ==
    IF hero_id \in DOMAIN agent.heroes
    THEN [agent EXCEPT !.heroes[hero_id].duplicates = @ + 1]
    ELSE LET owned == [h \in DOMAIN agent.heroes \cup {hero_id} |->
                          IF h = hero_id THEN [level |-> 1, stars |-> 1, duplicates |-> 0]
                          ELSE agent.heroes[h]]
             a1 == [agent EXCEPT !.heroes = owned, !.hero_order = Append(@, hero_id)]
         IN  IF Len(agent.team) < 5
             THEN calculate_team_power(cfg, [a1 EXCEPT !.team = Append(@, hero_id)])
             ELSE a1

(***************************************************************************)
(* WorldState: the formulas of the world and the guild registry.           *)
(***************************************************************************)
get_stage_power_requirement(cfg, chapter, stage) ==
    IntPow(100, Frac(2, 1), (chapter - 1) * cfg.stages_per_chapter + stage - 1)

get_stage_rewards(chapter, stage) ==
    [gold |-> 100 + (chapter - 1) * 50, exp |-> 20 + (chapter - 1) * 10]

\* get_idle_rewards for an idle time of idle_sec seconds (idle_sec / 3600
\* hours, capped at max_hours = 1); int() truncates toward zero
get_idle_rewards(max_stage, idle_sec) ==
    LET sec == IF idle_sec > 3600 THEN 3600 ELSE idle_sec
        gold == IF sec <= 0 THEN 0 ELSE (10 * (2 + max_stage) * sec) \div 7200
    IN  [gold |-> gold, exp |-> gold \div 10, sec |-> sec]

get_levelup_cost(current_level) == IntPow(100, Frac(3, 2), current_level - 1)

get_exp_for_level(cfg, level) ==
    IntPow(cfg.exp_per_level_base, cfg.exp_per_level_mult, level - 1)

\* the guilds of _generate_guilds: guild i is guild_id i
NewGuilds(cfg) ==
    [g \in 1..cfg.guild_count |->
        [member_count |-> 0, max_members |-> cfg.guild_max_members,
         boss_level |-> 1, boss_hp_remaining_pct |-> Frac(100, 1)]]

\* a guild that always has room
is_full_never(guild) == FALSE

is_full(guild) == guild.member_count >= guild.max_members

(***************************************************************************)
(* Agents (AgentFactory.create_agent, AgentState).  None is 0 for an id    *)
(* or a date and <<>> for a session id; hero_order is the insertion order  *)
(* of the heroes dict.                                                     *)
(***************************************************************************)
NoTests == [t \in {} |-> "control"]

AgentState(cfg, counter, player_type, install_date, tests, is_bot) ==
    [user_id |-> counter, device_id |-> counter, agent_type |-> player_type,
     install_date |-> install_date, install_source |-> "organic",
     source_retention_mod |-> One, source_monetization_mod |-> One, is_bot |-> is_bot,
     ab_tests |-> tests,
     player_level |-> 1, player_exp |-> 0, current_chapter |-> 1, current_stage |-> 1,
     max_chapter |-> 1, max_stage |-> 1, total_stages_cleared |-> 0,
     tutorial_completed |-> FALSE, tutorial_step |-> 0,
     gold |-> cfg.initial_gold, gems |-> cfg.initial_gems,
     summon_tickets |-> cfg.initial_summon_tickets, energy |-> cfg.initial_energy,
     max_energy |-> cfg.max_energy,
     total_spent_usd |-> 0, vip_level |-> 0, vip_points |-> 0, purchase_count |-> 0,
     bought_starter_pack |-> FALSE, has_active_monthly |-> FALSE,
     monthly_pass_day |-> 0, monthly_pass_start |-> 0,
     heroes |-> [h \in {} |-> [level |-> 1, stars |-> 1, duplicates |-> 0]],
     hero_order |-> <<>>, team |-> <<>>, team_power |-> 0,
     pity_counter |-> 0, total_gacha_pulls |-> 0,
     guild_id |-> 0, guild_joined_date |-> 0, arena_rank |-> 0, arena_rating |-> 1000,
     sessions_today |-> 0, ads_watched_today |-> 0, arena_attempts_today |-> 5,
     attacked_guild_boss_today |-> FALSE, claimed_daily_login |-> FALSE,
     claimed_idle_today |-> FALSE, daily_quests |-> <<>>,
     total_sessions |-> 0, total_playtime_sec |-> 0, last_session_date |-> 0,
     last_session_end |-> -1, login_streak |-> 0, consecutive_losses |-> 0,
     got_legendary_recently |-> FALSE,
     is_churned |-> FALSE, churn_date |-> 0,
     current_session_id |-> <<>>, current_session_start |-> -1,
     current_session_events |-> 0, session_stages_played |-> 0,
     session_gems_spent |-> 0, session_gold_spent |-> 0]

\* a daily reset that also refills the energy
reset_daily_state_refill(agent) ==
    [agent EXCEPT !.sessions_today = 0, !.ads_watched_today = 0,
                  !.arena_attempts_today = 5, !.attacked_guild_boss_today = FALSE,
                  !.claimed_daily_login = FALSE, !.claimed_idle_today = FALSE,
                  !.daily_quests = <<>>, !.got_legendary_recently = FALSE,
                  !.energy = agent.max_energy]

\* AgentState.reset_daily_state
reset_daily_state(agent) ==
    [agent EXCEPT !.sessions_today = 0, !.ads_watched_today = 0,
                  !.arena_attempts_today = 5, !.attacked_guild_boss_today = FALSE,
                  !.claimed_daily_login = FALSE, !.claimed_idle_today = FALSE,
                  !.daily_quests = <<>>, !.got_legendary_recently = FALSE]

(***************************************************************************)
(* Events (EventEmitter._create_event).  A handler in progress is a record *)
(* h: the agent as the handler has changed it so far (h.a), the events it  *)
(* has emitted so far (h.ev) and the current date (h.day).                 *)
(***************************************************************************)
get_user_properties(agent, current_date) ==
    [player_level |-> agent.player_level, vip_level |-> agent.vip_level,
     total_spent_usd |-> agent.total_spent_usd,
     days_since_install |-> current_date - agent.install_date,
     cohort_date |-> agent.install_date, current_chapter |-> agent.current_chapter]

\* an event constructor whose event properties depend on the generated uuid
_create_event_uuid_props(agent, current_date, event_name, timestamp, event_properties, uuid) ==
    [event_id |-> uuid, event_name |-> event_name, event_timestamp |-> timestamp,
     user_id |-> agent.user_id, session_id |-> agent.current_session_id,
     device |-> agent.device_id,
     user_properties |-> get_user_properties(agent, current_date),
     ab_tests |-> agent.ab_tests,
     event_properties |-> <<event_properties, uuid>>]

_create_event(agent, current_date, event_name, timestamp, event_properties, uuid) ==
    [event_id |-> uuid, event_name |-> event_name, event_timestamp |-> timestamp,
     user_id |-> agent.user_id, session_id |-> agent.current_session_id,
     device |-> agent.device_id,
     user_properties |-> get_user_properties(agent, current_date),
     ab_tests |-> agent.ab_tests,
     event_properties |-> event_properties]

\* generate_event_id: the uuid of the next event of a run whose uuid stream
\* is salt, n events having been created before the handler started
generate_event_id(h) == <<"evt", h.salt, h.n + Len(h.ev) + 1>>

\* generate_session_id for the k-th session of a run
generate_session_id(salt, k) == <<"s", salt, k>>

\* emitter.emit_<event_name>(...) followed by current_session_events += 1
Emit(h, event_name, timestamp, event_properties) ==
    [h EXCEPT !.ev = Append(@, _create_event(h.a, h.day, event_name, timestamp,
                                             event_properties, generate_event_id(h))),
              !.a.current_session_events = @ + 1]

\* emitter.emit_<event_name>(...) alone (session_end, player_state_snapshot)
EmitOnly(h, event_name, timestamp, event_properties) ==
    [h EXCEPT !.ev = Append(@, _create_event(h.a, h.day, event_name, timestamp,
                                             event_properties, generate_event_id(h)))]

\* the handler returns this timestamp
Return(h, timestamp) == [h EXCEPT !.t = timestamp]

\* the values of rng.randint(lo, hi) the model draws in a run that explores
\* both ends of a range, or the upper end only
randint(both, lo, hi) == IF both THEN {lo, hi} ELSE {hi}

(***************************************************************************)
(* Simulator._check_level_up                                               *)
(***************************************************************************)
unlocked_features(cfg, level) == {f \in DOMAIN cfg.feature_unlocks : cfg.feature_unlocks[f] = level}

RECURSIVE _check_level_up(_, _, _)
_check_level_up(cfg, h, timestamp) ==
    LET exp_needed == get_exp_for_level(cfg, h.a.player_level + 1)
    IN  IF h.a.player_exp < exp_needed \/ h.a.player_level >= 100 THEN h
        ELSE LET old_level == h.a.player_level
                 h1 == [h EXCEPT !.a.player_exp = @ - exp_needed, !.a.player_level = @ + 1]
             IN  _check_level_up(cfg,
                    Emit(h1, "player_levelup", timestamp,
                         [old_level |-> old_level, new_level |-> old_level + 1,
                          unlocked_features |-> unlocked_features(cfg, old_level + 1)]),
                    timestamp)

(***************************************************************************)
(* The claims of the first session of a day.                               *)
(***************************************************************************)
_claim_idle_rewards(cfg, h, timestamp, wait) ==
    IF h.a.claimed_idle_today THEN Return(h, timestamp)
    ELSE LET idle_sec == IF h.a.last_session_end # -1
                         THEN timestamp - h.a.last_session_end ELSE 12 * 3600
             max_stage == (h.a.max_chapter - 1) * cfg.stages_per_chapter + h.a.max_stage
             rewards == get_idle_rewards(max_stage, idle_sec)
             h1 == [h EXCEPT !.a.gold = @ + rewards.gold, !.a.player_exp = @ + rewards.exp]
             h2 == Emit(h1, "idle_reward_claim", timestamp,
                        [idle_duration_sec |-> rewards.sec, gold_earned |-> rewards.gold,
                         exp_earned |-> rewards.exp,
                         max_stage_id |-> <<h.a.max_chapter, h.a.max_stage>>])
             h3 == Emit(h2, "economy_source", timestamp,
                        [currency |-> "gold", amount |-> rewards.gold,
                         balance_after |-> h2.a.gold, source |-> "idle_reward"])
             h4 == IF rewards.gold > 0 THEN _check_level_up(cfg, h3, timestamp) ELSE h
         IN  Return([h4 EXCEPT !.a.claimed_idle_today = TRUE], timestamp + wait)

_claim_daily_login(cfg, h, timestamp, wait) ==
    IF h.a.claimed_daily_login THEN Return(h, timestamp)
    ELSE LET login_streak == h.a.login_streak
             reward_day == ((login_streak - 1) % 30) + 1
             is_streak_bonus == (login_streak % 7) = 0
             reward_currency == IF is_streak_bonus THEN "gems" ELSE "gold"
             reward_amount == IF is_streak_bonus THEN 50 * (login_streak \div 7)
                              ELSE 100 * reward_day
             h1 == IF reward_currency = "gems" THEN [h EXCEPT !.a.gems = @ + reward_amount]
                   ELSE [h EXCEPT !.a.gold = @ + reward_amount]
             h2 == Emit(h1, "daily_login", timestamp,
                        [login_streak |-> login_streak, reward_day |-> reward_day,
                         reward_currency |-> reward_currency, reward_amount |-> reward_amount,
                         is_streak_bonus |-> is_streak_bonus])
             h3 == Emit(h2, "economy_source", timestamp,
                        [currency |-> reward_currency, amount |-> reward_amount,
                         balance_after |-> IF reward_currency = "gems" THEN h2.a.gems ELSE h2.a.gold,
                         source |-> "login_reward"])
         IN  Return([h3 EXCEPT !.a.claimed_daily_login = TRUE], timestamp + wait)

_claim_monthly_pass(cfg, h, timestamp, wait) ==
    IF ~h.a.has_active_monthly THEN Return(h, timestamp)
    ELSE IF h.a.monthly_pass_start = 0 THEN Return(h, timestamp + wait)
    ELSE IF h.day - h.a.monthly_pass_start >= 30
         THEN Return([h EXCEPT !.a.has_active_monthly = FALSE], timestamp)
    ELSE LET daily_gems == cfg.monthly_gems_daily
             h1 == [h EXCEPT !.a.gems = @ + daily_gems, !.a.monthly_pass_day = @ + 1]
         IN  Return(Emit(h1, "economy_source", timestamp,
                         [currency |-> "gems", amount |-> daily_gems,
                          balance_after |-> h1.a.gems, source |-> "vip_bonus"]),
                    timestamp + wait)

(***************************************************************************)
(* WorldState: the gacha banners.  A banner is [banner_id, banner_type,    *)
(* featured_hero_id, start_date, end_date]; dates are day numbers, and the *)
(* banner_id of a limited banner is the number its name ends with.         *)
(***************************************************************************)
RECURSIVE limited_banners(_, _, _, _)
limited_banners(current, banner_num, end_date, featured) ==
    IF current >= end_date THEN <<>>
    ELSE LET banner_end == IF current + 14 < end_date THEN current + 14 ELSE end_date
         IN  <<[banner_id |-> banner_num, banner_type |-> "limited",
                featured_hero_id |-> featured[((banner_num - 1) % Len(featured)) + 1],
                start_date |-> current, end_date |-> banner_end]>>
             \o limited_banners(banner_end + 1, banner_num + 1, end_date, featured)

\* start_date is day 1; featured holds the heroes rng.choice draws for the
\* limited banners, taken in turn
_generate_banners(duration_days, featured) ==
    <<[banner_id |-> 0, banner_type |-> "standard", featured_hero_id |-> <<>>,
       start_date |-> 1, end_date |-> 1 + duration_days]>>
    \o limited_banners(1, 1, 1 + duration_days, featured)

is_active(banner, current_date) ==
    IF banner.banner_type = "standard" THEN TRUE
    ELSE banner.start_date <= current_date /\ current_date <= banner.end_date

\* the first active limited banner, <<>> for None
get_limited_banner(banners, current_date) ==
    Then({i \in 1..Len(banners) :
                    banners[i].banner_type = "limited" /\ is_active(banners[i], current_date)}, LAMBDA idx :
        IF idx = {} THEN <<>>
        ELSE banners[CHOOSE i \in idx : \A j \in idx : i <= j])

get_standard_banner(banners) == banners[1]

(***************************************************************************)
(* Simulator._calculate_install_distribution (uniform distribution).       *)
(***************************************************************************)
_calculate_install_distribution(total, duration) ==
    LET daily == total \div duration
        remainder == total - daily * duration
    IN  [i \in 1..duration |-> IF i <= remainder THEN daily + 1 ELSE daily]

(***************************************************************************)
(* AgentFactory.create_agent.                                              *)
(***************************************************************************)
RECURSIVE type_select(_, _, _, _)
type_select(cfg, value, i, cumulative) ==
    IF i > Len(PlayerTypes) THEN PlayerTypes[Len(PlayerTypes)]
    ELSE LET c == FAdd(cumulative, cfg.player_types[PlayerTypes[i]].share)
         IN  IF DrawBelow(value, c) THEN PlayerTypes[i]
             ELSE type_select(cfg, value, i + 1, c)

_select_player_type(cfg, value, is_bot) ==
    IF is_bot THEN "free_churner" ELSE type_select(cfg, value, 1, Frac(0, 1))

\* a hash that is drawn anew on every call
md5_redrawn(memo, test_name, user_id, fresh) == fresh

\* int(md5("seed:test_name:user_id").hexdigest(), 16) % 10000: the value the
\* hash has taken for this key, or the value it takes now
md5(memo, test_name, user_id, fresh) ==
    IF <<test_name, user_id>> \in DOMAIN memo THEN memo[<<test_name, user_id>>] ELSE fresh

Remember(memo, test_name, user_id, fresh) ==
    IF <<test_name, user_id>> \in DOMAIN memo THEN memo
    ELSE [k \in DOMAIN memo \cup {<<test_name, user_id>>} |->
            IF k \in DOMAIN memo THEN memo[k] ELSE fresh]

TestNames(cfg) == {cfg.ab_tests[i].name : i \in 1..Len(cfg.ab_tests)}

TestConfig(cfg, test_name) ==
    cfg.ab_tests[CHOOSE i \in 1..Len(cfg.ab_tests) : cfg.ab_tests[i].name = test_name]

\* the tests assigned at creation
CreationTests(cfg) ==
    {t \in TestNames(cfg) : TestConfig(cfg, t).enabled /\ ~TestConfig(cfg, t).activation
                            /\ TestConfig(cfg, t).variants # <<>>
                            /\ TestConfig(cfg, t).weights # <<>>}

_assign_ab_tests(cfg, memo, user_id, fresh) ==
    [t \in CreationTests(cfg) |->
        get_ab_group(md5(memo, t, user_id, fresh),
                     TestConfig(cfg, t).variants, TestConfig(cfg, t).weights)]

RECURSIVE RememberAll(_, _, _, _)
RememberAll(memo, tests, user_id, fresh) ==
    IF tests = {} THEN memo
    ELSE LET t == CHOOSE x \in tests : TRUE
         IN  RememberAll(Remember(memo, t, user_id, fresh), tests \ {t}, user_id, fresh)

create_agent(cfg, memo, agent_counter, install_date, type_value, fresh, is_bot) ==
    AgentState(cfg, agent_counter + 1, _select_player_type(cfg, type_value, is_bot),
               install_date, _assign_ab_tests(cfg, memo, agent_counter + 1, fresh), is_bot)

(***************************************************************************)
(* The first session of an install: tutorial, starting heroes, login.      *)
(***************************************************************************)
TUTORIAL_STEPS ==
    << [id |-> "tut_welcome", lo |-> 5, hi |-> 15],
       [id |-> "tut_first_battle", lo |-> 20, hi |-> 60],
       [id |-> "tut_hero_summon", lo |-> 20, hi |-> 50],
       [id |-> "tut_hero_levelup", lo |-> 15, hi |-> 40],
       [id |-> "tut_team_setup", lo |-> 15, hi |-> 35],
       [id |-> "tut_campaign", lo |-> 20, hi |-> 45],
       [id |-> "tut_idle_rewards", lo |-> 10, hi |-> 25],
       [id |-> "tut_complete", lo |-> 5, hi |-> 10] >>

EXTENDED_TUTORIAL_STEPS ==
    << [id |-> "tut_arena_preview", lo |-> 20, hi |-> 40],
       [id |-> "tut_shop_tour", lo |-> 15, hi |-> 30],
       [id |-> "tut_guild_preview", lo |-> 15, hi |-> 35],
       [id |-> "tut_advanced_tips", lo |-> 10, hi |-> 25] >>

\* the draws of a tutorial: the step numbers skipped and whether every
\* duration is the upper or the lower end of its range
TutorialDraws ==
    {[skip |-> {}, hi |-> FALSE], [skip |-> {3}, hi |-> TRUE], [skip |-> 3..12, hi |-> FALSE]}

\* the tutorial of the control variant, whatever the agent's variant
tutorial_steps_standard(agent) == TUTORIAL_STEPS

tutorial_steps(agent) ==
    Then(IF HasTest(agent, "onboarding_length")
                   THEN agent.ab_tests["onboarding_length"] ELSE "control", LAMBDA variant :
        IF variant = "short" THEN SubSeq(TUTORIAL_STEPS, 1, 4)
        ELSE IF variant = "extended" THEN TUTORIAL_STEPS \o EXTENDED_TUTORIAL_STEPS
        ELSE TUTORIAL_STEPS)

\* the loop of _simulate_tutorial from step i on; acc = [time, total,
\* completed, skipped]
RECURSIVE tutorial_loop(_, _, _, _, _)
tutorial_loop(h, steps, i, acc, d) ==
    IF i > Len(steps) THEN [h |-> h, acc |-> acc]
    ELSE LET is_skipped == i - 1 >= 2 /\ i \in d.skip
             duration == IF is_skipped THEN (IF d.hi THEN 3 ELSE 1)
                         ELSE (IF d.hi THEN steps[i].hi ELSE steps[i].lo)
             h1 == Emit(h, "tutorial_step", acc.time,
                        [step_id |-> steps[i].id, step_number |-> i,
                         duration_sec |-> duration, is_skipped |-> is_skipped])
         IN  tutorial_loop([h1 EXCEPT !.a.tutorial_step = i], steps, i + 1,
                           [time |-> acc.time + duration, total |-> acc.total + duration,
                            completed |-> acc.completed + (IF is_skipped THEN 0 ELSE 1),
                            skipped |-> acc.skipped + (IF is_skipped THEN 1 ELSE 0)],
                           d)

_simulate_tutorial(h, start_time, d) ==
    Then(tutorial_loop(h, tutorial_steps(h.a), 1,
                           [time |-> start_time, total |-> 0, completed |-> 0, skipped |-> 0], d), LAMBDA r :
    LET h1 == Emit(r.h, "tutorial_complete", r.acc.time,
                   [total_duration_sec |-> r.acc.total, steps_completed |-> r.acc.completed,
                    steps_skipped |-> r.acc.skipped])
    IN  [h1 EXCEPT !.a.tutorial_completed = TRUE])

\* heroes is the sequence of the three rng.choice results
_give_starting_heroes(cfg, h, heroes) ==
    LET a1 == add_hero(cfg, h.a, heroes[1])
        a2 == add_hero(cfg, a1, heroes[2])
        a3 == add_hero(cfg, a2, heroes[3])
    IN  [h EXCEPT !.a = calculate_team_power(cfg, a3)]

\* the choices of starting heroes the model draws
StarterChoices(cfg) ==
    LET c == get_heroes_by_rarity(cfg, "common")
    IN  {<<c[1], c[1], c[1]>>, <<c[1], c[Len(c)], c[1]>>, <<c[Len(c)], c[1], c[Len(c)]>>}

\* the times of day get_session_start_time returns in the model
SessionTimes == {0, 86399}

get_session_duration_minutes(cfg, agent, session_number) == 2

_simulate_first_session(cfg, h, session_id, time_of_day, d, heroes, wait) ==
    LET timestamp == (h.day - 1) * 86400 + time_of_day
        h0 == [h EXCEPT !.a.current_session_id = session_id,
                        !.a.current_session_start = timestamp,
                        !.a.current_session_events = 0,
                        !.a.session_stages_played = 0,
                        !.a.session_gems_spent = 0,
                        !.a.session_gold_spent = 0]
        h1 == Emit(h0, "session_start", timestamp,
                   [session_number |-> 1, is_first_session |-> TRUE,
                    time_since_last_session_sec |-> <<>>])
        h2 == _simulate_tutorial(h1, timestamp, d)
        h3 == _give_starting_heroes(cfg, h2, heroes)
    IN
    Then(_claim_daily_login(cfg, h3, timestamp, wait), LAMBDA h4 :
    LET duration_min == get_session_duration_minutes(cfg, h4.a, 1)
    IN
    Then(timestamp + duration_min * 60, LAMBDA end_timestamp :
    LET h5 == EmitOnly(h4, "session_end", end_timestamp,
                       [session_duration_sec |-> duration_min * 60,
                        events_count |-> h4.a.current_session_events,
                        stages_played |-> h4.a.session_stages_played,
                        gems_spent |-> h4.a.session_gems_spent,
                        gold_spent |-> h4.a.session_gold_spent])
    IN  [h5 EXCEPT !.a.total_sessions = 1, !.a.sessions_today = 1,
                   !.a.total_playtime_sec = duration_min * 60,
                   !.a.last_session_date = h.day,
                   !.a.last_session_end = end_timestamp,
                   !.a.current_session_id = <<>>]))

(***************************************************************************)
(* The start of _simulate_agent_day and the frame of _simulate_session.    *)
(***************************************************************************)
generate_daily_quests(cfg, agent) ==
    IF agent.player_level < cfg.feature_unlocks.daily_quests THEN <<>>
    ELSE [dq_stages |-> [target |-> 5, current |-> 0, completed |-> FALSE],
          dq_gacha |-> [target |-> 3, current |-> 0, completed |-> FALSE],
          dq_levelup |-> [target |-> 1, current |-> 0, completed |-> FALSE],
          dq_arena |-> [target |-> 1, current |-> 0, completed |-> FALSE],
          dq_login |-> [target |-> 1, current |-> 1, completed |-> TRUE]]

\* the late_game_offer assignment of _simulate_agent_day
activate_late_game_offer(cfg, memo, agent, current_date, fresh) ==
    LET days_since == current_date - agent.install_date
        tests == {t \in TestNames(cfg) : t = "late_game_offer"}
    IN  IF days_since >= 30 /\ ~HasTest(agent, "late_game_offer") /\ tests # {}
           /\ TestConfig(cfg, "late_game_offer").enabled
           /\ TestConfig(cfg, "late_game_offer").variants # <<>>
           /\ TestConfig(cfg, "late_game_offer").weights # <<>>
        THEN LET variant == get_ab_group(md5(memo, "late_game_offer", agent.user_id, fresh),
                                         TestConfig(cfg, "late_game_offer").variants,
                                         TestConfig(cfg, "late_game_offer").weights)
             IN  [agent EXCEPT !.ab_tests =
                     [t \in DOMAIN agent.ab_tests \cup {"late_game_offer"} |->
                         IF t = "late_game_offer" THEN variant ELSE agent.ab_tests[t]]]
        ELSE agent

update_login_streak(agent, current_date) ==
    IF agent.last_session_date # 0 /\ current_date - agent.last_session_date = 1
    THEN [agent EXCEPT !.login_streak = @ + 1]
    ELSE [agent EXCEPT !.login_streak = 1]

\* the sorted session times of a day of num_sessions sessions
SessionTimeLists(num_sessions) ==
    {q \in UNION {[1..n -> SessionTimes] : n \in {num_sessions}} :
        \A i \in 1..(Len(q) - 1) : q[i] <= q[i + 1]}

\* _simulate_session up to the main loop
\* a session start that numbers the sessions of the day instead of the
\* sessions of the agent
session_begin_numbered_by_day(cfg, h, session_id, start_time, session_number, waits) ==
    LET h0 == [h EXCEPT !.a.total_sessions = @ + 1, !.a.sessions_today = @ + 1,
                        !.a.current_session_id = session_id,
                        !.a.current_session_start = start_time]
    IN  Return(Emit(h0, "session_start", start_time,
                    [session_number |-> session_number, is_first_session |-> FALSE,
                     time_since_last_session_sec |-> <<>>]), start_time)

session_begin(cfg, h, session_id, start_time, session_number, waits) ==
    LET h0 == [h EXCEPT !.a.total_sessions = @ + 1, !.a.sessions_today = @ + 1]
        time_since_last == IF h.a.last_session_end # -1
                           THEN <<start_time - h.a.last_session_end>> ELSE <<>>
        h1 == [h0 EXCEPT !.a.current_session_id = session_id,
                         !.a.current_session_start = start_time,
                         !.a.current_session_events = 0,
                         !.a.session_stages_played = 0,
                         !.a.session_gems_spent = 0,
                         !.a.session_gold_spent = 0]
    IN
    Then(Emit(h1, "session_start", start_time,
                   [session_number |-> h1.a.total_sessions, is_first_session |-> FALSE,
                    time_since_last_session_sec |-> time_since_last]), LAMBDA h2 :
    Then(_claim_idle_rewards(cfg, h2, start_time, waits[1]), LAMBDA c1 :
    Then(_claim_daily_login(cfg, c1, c1.t, waits[2]), LAMBDA c2 :
    LET c3 == _claim_monthly_pass(cfg, c2, c2.t, waits[3])
    IN  IF session_number = 1 THEN c3 ELSE Return(h2, start_time))))

\* the end of a session that leaves current_session_id set
session_finish_keeping_id(h, current_time) ==
    LET actual_duration == current_time - h.a.current_session_start
        h1 == EmitOnly(h, "session_end", current_time,
                       [session_duration_sec |-> actual_duration,
                        events_count |-> h.a.current_session_events,
                        stages_played |-> h.a.session_stages_played,
                        gems_spent |-> h.a.session_gems_spent,
                        gold_spent |-> h.a.session_gold_spent])
    IN  [h1 EXCEPT !.a.total_playtime_sec = @ + actual_duration,
                   !.a.last_session_date = h.day,
                   !.a.last_session_end = current_time]

\* _simulate_session after the main loop
session_finish(h, current_time) ==
    LET actual_duration == current_time - h.a.current_session_start
        h1 == EmitOnly(h, "session_end", current_time,
                       [session_duration_sec |-> actual_duration,
                        events_count |-> h.a.current_session_events,
                        stages_played |-> h.a.session_stages_played,
                        gems_spent |-> h.a.session_gems_spent,
                        gold_spent |-> h.a.session_gold_spent])
    IN  [h1 EXCEPT !.a.total_playtime_sec = @ + actual_duration,
                   !.a.last_session_date = h.day,
                   !.a.last_session_end = current_time,
                   !.a.current_session_id = <<>>]

get_heroes_count_by_rarity(agent) ==
    [r \in {"common", "rare", "epic", "legendary"} |->
        Cardinality({x \in DOMAIN agent.heroes : x[1] = r})]

\* emit_player_state_snapshot
\* a snapshot emitted twice
snapshot_twice(h, timestamp) ==
    EmitOnly(EmitOnly(h, "player_state_snapshot", timestamp, [gold_balance |-> h.a.gold]),
             "player_state_snapshot", timestamp, [gold_balance |-> h.a.gold])

snapshot(h, timestamp) ==
    EmitOnly(h, "player_state_snapshot", timestamp,
             [gold_balance |-> h.a.gold, gems_balance |-> h.a.gems,
              summon_tickets |-> h.a.summon_tickets, energy |-> h.a.energy,
              heroes_count |-> Cardinality(DOMAIN h.a.heroes),
              heroes_by_rarity |-> get_heroes_count_by_rarity(h.a),
              team_power |-> h.a.team_power,
              max_chapter |-> h.a.max_chapter, max_stage |-> h.a.max_stage,
              arena_rating |-> h.a.arena_rating, guild_id |-> h.a.guild_id,
              total_sessions |-> h.a.total_sessions,
              total_playtime_sec |-> h.a.total_playtime_sec,
              pity_counter |-> h.a.pity_counter])

\* _get_permanent_churn_probability
_get_permanent_churn_probability(days_since) ==
    IF days_since <= 7 THEN Frac(1, 10)
    ELSE IF days_since <= 30 THEN Frac(3, 10)
    ELSE IF days_since <= 60 THEN Frac(5, 10)
    ELSE Frac(7, 10)

(***************************************************************************)
(* The handlers of the main loop of a session.  Each takes the handler     *)
(* state h, the timestamp and a record d of the draws it consumes, and     *)
(* returns h with h.t the timestamp the handler returns.                   *)
(***************************************************************************)
\* power_ratio >= num / 10, with power_ratio = 1.0 for a zero requirement
RatioAtLeast(team_power, required_power, num) ==
    IF required_power > 0 THEN team_power * 10 >= num * required_power ELSE 10 >= num

\* [success, stars]: d.success decides the battle, d.cos the stars
simulate_stage_result(agent, required_power, d) ==
    LET ge(num) == RatioAtLeast(agent.team_power, required_power, num)
        success_prob == IF ge(13) THEN Frac(98, 100)
                        ELSE IF ge(11) THEN Frac(85, 100)
                        ELSE IF ge(10) THEN Frac(70, 100)
                        ELSE IF ge(9) THEN Frac(45, 100)
                        ELSE IF ge(8) THEN Frac(25, 100)
                        ELSE Frac(10, 100)
    IN
    Then(DrawBelow(d.success, success_prob), LAMBDA success :
    Then(IF ge(13) THEN 3
                 ELSE IF ge(11) THEN (IF DrawBelow(d.cos, Frac(7, 10)) THEN 3 ELSE 2)
                 ELSE IF DrawBelow(d.cos, Frac(3, 10)) THEN 1
                 ELSE IF DrawBelow(d.cos, Frac(8, 10)) THEN 2 ELSE 3, LAMBDA stars :
        IF success THEN [success |-> TRUE, stars |-> stars]
        ELSE [success |-> FALSE, stars |-> 0]))

\* the progress of a first clear
stage_progress(cfg, agent, chapter, stage) ==
    IF stage < cfg.stages_per_chapter
    THEN [agent EXCEPT !.current_stage = stage + 1, !.max_stage = stage + 1]
    ELSE IF chapter < cfg.total_chapters
    THEN [agent EXCEPT !.current_chapter = chapter + 1, !.current_stage = 1,
                       !.max_chapter = chapter + 1, !.max_stage = 1]
    ELSE agent

_play_stage(cfg, h, timestamp, d) ==
    LET chapter == h.a.current_chapter
        stage == h.a.current_stage
        energy_cost == cfg.stage_energy_cost
        h1 == [h EXCEPT !.a.energy = @ - energy_cost, !.a.session_stages_played = @ + 1]
    IN
    Then(Emit(h1, "economy_sink", timestamp,
                   [currency |-> "energy", amount |-> energy_cost,
                    balance_after |-> h1.a.energy, sink |-> "stage_entry",
                    sink_id |-> <<chapter, stage>>]), LAMBDA h2 :
    Then(get_stage_power_requirement(cfg, chapter, stage), LAMBDA required_power :
    Then(Emit(h2, "stage_start", timestamp,
                   [chapter |-> chapter, stage |-> stage, attempt_number |-> 1,
                    team_power |-> h2.a.team_power, team_size |-> Len(h2.a.team),
                    hero_ids |-> h2.a.team]), LAMBDA h3 :
    Then(simulate_stage_result(h3.a, required_power, d), LAMBDA result :
    LET end_time == timestamp + d.duration
        is_first == chapter > h3.a.max_chapter
                    \/ (chapter = h3.a.max_chapter /\ stage > h3.a.max_stage)
    IN
    Then(get_stage_rewards(chapter, stage), LAMBDA rewards :
    LET w1 == [h3 EXCEPT !.a.gold = @ + rewards.gold, !.a.player_exp = @ + rewards.exp,
                         !.a.total_stages_cleared = @ + 1]
    IN
    Then(Emit(w1, "stage_complete", end_time,
                   [chapter |-> chapter, stage |-> stage, duration_sec |-> d.duration,
                    stars |-> result.stars, is_first_clear |-> is_first,
                    gold_reward |-> rewards.gold, exp_reward |-> rewards.exp,
                    loot_items |-> IF DrawBelow(d.cos, Frac(3, 10)) THEN <<"equipment">> ELSE <<>>]), LAMBDA w2 :
    Then(Emit(w2, "economy_source", end_time,
                   [currency |-> "gold", amount |-> rewards.gold,
                    balance_after |-> w2.a.gold, source |-> "stage_reward"]), LAMBDA w3 :
    LET w4 == IF is_first THEN [w3 EXCEPT !.a = stage_progress(cfg, w3.a, chapter, stage)] ELSE w3
        w5 == _check_level_up(cfg, [w4 EXCEPT !.a.consecutive_losses = 0], end_time)
        l1 == Emit(h3, "stage_fail", end_time,
                   [chapter |-> chapter, stage |-> stage, duration_sec |-> d.duration,
                    fail_reason |-> "defeat", team_power |-> h3.a.team_power,
                    required_power |-> required_power])
        l2 == [l1 EXCEPT !.a.consecutive_losses = @ + 1]
    IN  IF h.a.energy < energy_cost THEN Return(h, timestamp)
        ELSE IF result.success THEN Return(w5, end_time)
        ELSE Return(l2, end_time))))))))

\* a cheapest hero below level 100, whatever gold the agent holds
best_hero_any_price(agent) ==
    Then({x \in DOMAIN agent.heroes : agent.heroes[x].level < 100}, LAMBDA ok :
    Then({x \in ok : \A y \in ok :
                        get_levelup_cost(agent.heroes[x].level)
                            <= get_levelup_cost(agent.heroes[y].level)}, LAMBDA cheapest :
        IF ok = {} THEN <<>>
        ELSE agent.hero_order[CHOOSE i \in 1..Len(agent.hero_order) :
                                /\ agent.hero_order[i] \in cheapest
                                /\ \A j \in 1..(i - 1) : agent.hero_order[j] \notin cheapest]))

\* the hero _upgrade_hero levels up: a cheapest affordable one, the first
\* such in the order of the collection (hero_order is the insertion order
\* of the heroes dict), <<>> for None
best_hero(agent) ==
    Then({x \in DOMAIN agent.heroes :
                  agent.heroes[x].level < 100
                  /\ get_levelup_cost(agent.heroes[x].level) <= agent.gold}, LAMBDA ok :
    Then({x \in ok : \A y \in ok :
                        get_levelup_cost(agent.heroes[x].level)
                            <= get_levelup_cost(agent.heroes[y].level)}, LAMBDA cheapest :
        IF ok = {} THEN <<>>
        ELSE agent.hero_order[CHOOSE i \in 1..Len(agent.hero_order) :
                                /\ agent.hero_order[i] \in cheapest
                                /\ \A j \in 1..(i - 1) : agent.hero_order[j] \notin cheapest]))

QuestProgress(agent, quest_id, amount) ==
    IF quest_id \in DOMAIN agent.daily_quests /\ ~agent.daily_quests[quest_id].completed
    THEN [agent EXCEPT !.daily_quests[quest_id] =
             [@ EXCEPT !.current = @ + amount,
                       !.completed = (agent.daily_quests[quest_id].current + amount
                                        >= agent.daily_quests[quest_id].target)]]
    ELSE agent

_upgrade_hero(cfg, h, timestamp, d) ==
    LET best == best_hero(h.a)
    IN
    Then(get_levelup_cost(h.a.heroes[best].level), LAMBDA best_cost :
    Then(h.a.heroes[best].level, LAMBDA old_level :
    LET old_power == power(cfg, best, h.a.heroes[best])
    IN
    Then([h EXCEPT !.a.gold = @ - best_cost, !.a.session_gold_spent = @ + best_cost,
                        !.a.heroes[best].level = @ + 1], LAMBDA h1 :
    Then(Emit(h1, "economy_sink", timestamp,
                   [currency |-> "gold", amount |-> best_cost, balance_after |-> h1.a.gold,
                    sink |-> "hero_levelup", sink_id |-> best]), LAMBDA h2 :
    Then(Emit(h2, "hero_levelup", timestamp,
                   [hero_id |-> best, old_level |-> old_level, new_level |-> old_level + 1,
                    gold_spent |-> best_cost, power_before |-> old_power,
                    power_after |-> power(cfg, best, h2.a.heroes[best])]), LAMBDA h3 :
    LET h4 == [h3 EXCEPT !.a = QuestProgress(calculate_team_power(cfg, h3.a), "dq_levelup", 1)]
    IN  IF DOMAIN h.a.heroes = {} \/ best = <<>> THEN Return(h, timestamp)
        ELSE Return(h4, timestamp + d.duration))))))

(***************************************************************************)
(* Gacha: AgentBehavior.should_do_gacha, get_gacha_pull_type and           *)
(* Simulator._do_gacha, the latter in three parts: up to the pulls, one    *)
(* pull, and after the pulls.                                              *)
(***************************************************************************)
should_do_gacha(cfg, agent, value) ==
    LET gacha_desire == cfg.player_types[agent.agent_type].gacha_desire
        can_afford_single == agent.gems >= cfg.gacha_single_cost \/ agent.summon_tickets >= 1
    IN
    Then(IF agent.pity_counter >= 75 THEN FAdd(gacha_desire, Frac(4, 10))
              ELSE IF agent.pity_counter >= 50 THEN FAdd(gacha_desire, Frac(2, 10))
              ELSE gacha_desire, LAMBDA d1 :
    LET desire == IF HasTest(agent, "gacha_pity_display")
                     /\ agent.ab_tests["gacha_pity_display"] = "visible"
                     /\ agent.pity_counter >= 50
                  THEN FAdd(d1, Frac(15, 100)) ELSE d1
    IN  IF ~can_afford_single THEN FALSE ELSE DrawBelow(value, desire))

\* a pull type that prefers gems to tickets
get_gacha_pull_type_gems_first(cfg, agent) ==
    IF agent.gems >= cfg.gacha_multi_cost /\ agent.agent_type \in {"whale", "dolphin"}
    THEN [type |-> "multi", currency |-> "gems", count |-> 10]
    ELSE IF agent.summon_tickets >= 10
    THEN [type |-> "multi", currency |-> "tickets", count |-> 10]
    ELSE IF agent.gems >= cfg.gacha_single_cost
    THEN [type |-> "single", currency |-> "gems", count |-> 1]
    ELSE IF agent.summon_tickets >= 1
    THEN [type |-> "single", currency |-> "tickets", count |-> 1]
    ELSE [type |-> "none", currency |-> "none", count |-> 0]

\* a pull type that is never "none": a single pull on credit
get_gacha_pull_type_on_credit(cfg, agent) ==
    IF agent.summon_tickets >= 1 THEN [type |-> "single", currency |-> "tickets", count |-> 1]
    ELSE [type |-> "single", currency |-> "gems", count |-> 1]

get_gacha_pull_type(cfg, agent) ==
    LET can_single_ticket == agent.summon_tickets >= 1
        can_multi_ticket == agent.summon_tickets >= 10
        can_single_gems == agent.gems >= cfg.gacha_single_cost
        can_multi_gems == agent.gems >= cfg.gacha_multi_cost
    IN  IF can_multi_ticket THEN [type |-> "multi", currency |-> "tickets", count |-> 10]
        ELSE IF can_multi_gems /\ agent.agent_type \in {"whale", "dolphin"}
        THEN [type |-> "multi", currency |-> "gems", count |-> 10]
        ELSE IF can_single_ticket THEN [type |-> "single", currency |-> "tickets", count |-> 1]
        ELSE IF can_single_gems THEN [type |-> "single", currency |-> "gems", count |-> 1]
        ELSE [type |-> "none", currency |-> "none", count |-> 0]

\* the banner of a summon: d.limited is the draw for the limited banner
gacha_banner(banners, current_date, d) ==
    LET limited == get_limited_banner(banners, current_date)
    IN  IF limited # <<>> /\ DrawBelow(d.limited, Frac(6, 10)) THEN limited
        ELSE get_standard_banner(banners)

\* the pulls still to do after the first part: [banner, num_pulls, currency,
\* cost, i], i being the pulls done
gacha_pulls(cfg, banners, h, d) ==
    LET pull_info == get_gacha_pull_type(cfg, h.a)
    IN  [banner |-> gacha_banner(banners, h.day, d), num_pulls |-> pull_info.count,
         currency |-> pull_info.currency,
         cost |-> IF pull_info.currency = "tickets" THEN pull_info.count
                  ELSE IF pull_info.count = 10 THEN cfg.gacha_multi_cost
                  ELSE cfg.gacha_single_cost,
         i |-> 0]

_do_gacha_begin(cfg, banners, h, timestamp, d) ==
    Then(gacha_pulls(cfg, banners, h, d), LAMBDA g :
    Then(Emit(h, "gacha_banner_view", timestamp,
                   [banner_id |-> g.banner.banner_id, banner_type |-> g.banner.banner_type,
                    player_gems |-> h.a.gems, player_tickets |-> h.a.summon_tickets,
                    can_afford_single |-> (h.a.gems >= cfg.gacha_single_cost
                                           \/ h.a.summon_tickets >= 1),
                    can_afford_multi |-> (h.a.gems >= cfg.gacha_multi_cost
                                          \/ h.a.summon_tickets >= 10)]), LAMBDA h1 :
    LET ts == timestamp + d.duration
        h2 == IF g.currency = "tickets" THEN [h1 EXCEPT !.a.summon_tickets = @ - g.cost]
              ELSE [h1 EXCEPT !.a.gems = @ - g.cost, !.a.session_gems_spent = @ + g.cost]
        h3 == Emit(h2, "economy_sink", ts,
                   [currency |-> IF g.currency = "tickets" THEN "summon_tickets" ELSE "gems",
                    amount |-> g.cost,
                    balance_after |-> IF g.currency = "tickets" THEN h2.a.summon_tickets
                                      ELSE h2.a.gems,
                    sink |-> "gacha_summon"])
    IN  IF get_gacha_pull_type(cfg, h.a).type = "none" THEN Return(h, timestamp)
        ELSE Return(h3, ts)))

\* a pity counter that a legendary does not reset
pity_after_no_reset(rarity, pity_before) == pity_before + 1

\* the pity counter after a pull of the given rarity
pity_after(rarity, pity_before) == IF rarity = "legendary" THEN 0 ELSE pity_before + 1

\* one iteration of the pull loop: d.roll is the rarity draw, d.cos decides
\* the hero of the pool, the featured replacement and the pause
_do_gacha_pull(cfg, rates_obj, h, g, d) ==
    LET timestamp == h.t
        pity_before == h.a.pity_counter
    IN
    Then(roll_gacha(cfg, rates_obj, pity_before, d.roll), LAMBDA roll :
    LET rarity == roll.rarity
    IN
    Then(get_heroes_by_rarity(cfg, rarity), LAMBDA heroes_pool :
    LET chosen == IF d.cos = 0 THEN heroes_pool[1] ELSE heroes_pool[Len(heroes_pool)]
    IN
    Then(IF g.banner.featured_hero_id # <<>> /\ rarity = "legendary"
                            /\ DrawBelow(d.cos, Frac(5, 10))
                         THEN g.banner.featured_hero_id ELSE chosen, LAMBDA hero_template :
    LET is_new == hero_template \notin DOMAIN h.a.heroes
    IN
    Then(add_hero(cfg, h.a, hero_template), LAMBDA a1 :
    LET pity_triggered == rarity = "legendary" /\ pity_before >= cfg.soft_pity_start
        a2 == IF rarity = "legendary"
              THEN [a1 EXCEPT !.pity_counter = pity_after(rarity, pity_before),
                              !.got_legendary_recently = TRUE]
              ELSE [a1 EXCEPT !.pity_counter = pity_after(rarity, pity_before)]
    IN
    Then([a2 EXCEPT !.total_gacha_pulls = @ + 1], LAMBDA a3 :
    LET h1 == Emit([h EXCEPT !.a = a3], "gacha_summon", timestamp,
                   [banner_id |-> g.banner.banner_id,
                    summon_type |-> IF g.num_pulls = 10 THEN "multi_10" ELSE "single",
                    summon_index |-> g.i + 1,
                    summon_cost_currency |-> IF g.currency = "tickets" THEN "summon_tickets"
                                             ELSE "gems",
                    summon_cost_amount |-> IF g.i = 0 THEN g.cost ELSE 0,
                    hero_id |-> hero_template, hero_rarity |-> hero_template[1],
                    is_new |-> is_new, is_duplicate |-> ~is_new,
                    pity_counter_before |-> pity_before,
                    pity_counter_after |-> a3.pity_counter,
                    pity_triggered |-> pity_triggered])
    IN  [h |-> Return(h1, timestamp + (IF d.cos = 0 THEN 1 ELSE 3)),
         config_rates |-> roll.config_rates, roll |-> roll])))))

_do_gacha_finish(cfg, h, num_pulls) ==
    [h EXCEPT !.a = QuestProgress(calculate_team_power(cfg, h.a), "dq_gacha", num_pulls)]

(***************************************************************************)
(* Arena.                                                                  *)
(***************************************************************************)
should_do_arena(cfg, agent, value) ==
    IF agent.player_level < cfg.feature_unlocks.arena THEN FALSE
    ELSE IF agent.arena_attempts_today <= 0
    THEN agent.agent_type \in {"whale", "dolphin"}
         /\ agent.gems >= cfg.arena_attempt_cost_gems
         /\ DrawBelow(value, Frac(2, 10))
    ELSE DrawBelow(value, cfg.player_types[agent.agent_type].arena_engagement)

simulate_arena_result(agent, opponent_power, value) ==
    LET ge(num) == RatioAtLeast(agent.team_power, opponent_power, num)
        win_prob == IF ge(12) THEN Frac(85, 100)
                    ELSE IF ge(10) THEN Frac(60, 100)
                    ELSE IF ge(8) THEN Frac(35, 100)
                    ELSE Frac(15, 100)
    IN  DrawBelow(value, win_prob)

\* int(k * (actual - expected)) for k = 32 and an opponent rated 1000, as
\* the floating-point formula evaluates: <<from rating, change on a win,
\* change on a loss>>, for ratings 838 to 1162
EloTable ==
    << <<838, 22, -9>>, <<864, 21, -10>>, <<888, 20, -11>>, <<912, 19, -12>>,
       <<935, 18, -13>>, <<957, 17, -14>>, <<979, 16, -15>>, <<1000, 16, -16>>,
       <<1001, 15, -16>>, <<1022, 14, -17>>, <<1044, 13, -18>>, <<1066, 12, -19>>,
       <<1089, 11, -20>>, <<1113, 10, -21>>, <<1137, 9, -22>> >>

calculate_arena_rating_change(agent_rating, won) ==
    LET rows == {i \in 1..Len(EloTable) : EloTable[i][1] <= agent_rating}
    IN
    Then(IF rows = {} THEN EloTable[1]
               ELSE EloTable[CHOOSE i \in rows : \A j \in rows : j <= i], LAMBDA row :
        IF won THEN row[2] ELSE row[3])

_do_arena(cfg, h, timestamp, d) ==
    LET is_paid == h.a.arena_attempts_today <= 0
        cost == cfg.arena_attempt_cost_gems
        p1 == [h EXCEPT !.a.gems = @ - cost, !.a.session_gems_spent = @ + cost]
        p2 == Emit(p1, "economy_sink", timestamp,
                   [currency |-> "gems", amount |-> cost, balance_after |-> p1.a.gems,
                    sink |-> "arena_attempt"])
    IN
    Then(IF is_paid THEN p2 ELSE [h EXCEPT !.a.arena_attempts_today = @ - 1], LAMBDA h1 :
    Then(FloorF(FMul(Frac(h1.a.team_power, 1), d.uniform)), LAMBDA opponent_power :
    LET opponent_rank == IF h1.a.arena_rank + d.rank > 1 THEN h1.a.arena_rank + d.rank ELSE 1
    IN
    Then(Emit(h1, "arena_battle_start", timestamp,
                   [opponent_power |-> opponent_power, opponent_rank |-> opponent_rank,
                    player_power |-> h1.a.team_power, player_rank |-> h1.a.arena_rank,
                    attempt_number |-> 5 - h1.a.arena_attempts_today,
                    is_paid_attempt |-> is_paid]), LAMBDA h2 :
    LET end_time == timestamp + d.duration
    IN
    Then(simulate_arena_result(h2.a, opponent_power, d.won), LAMBDA won :
    Then(calculate_arena_rating_change(h2.a.arena_rating, won), LAMBDA rating_change :
    LET old_rank == h2.a.arena_rank
        new_rating == h2.a.arena_rating + rating_change
        rank0 == 2000 - ((new_rating + 9) \div 10)
        new_rank == IF rank0 > 1 THEN rank0 ELSE 1
        reward_amount == 100 + new_rank
        h3 == [h2 EXCEPT !.a.arena_rating = new_rating, !.a.arena_rank = new_rank,
                         !.a.gold = IF won THEN @ + reward_amount ELSE @]
    IN
    Then(Emit(h3, "arena_battle_end", end_time,
                   [result |-> IF won THEN "win" ELSE "lose", duration_sec |-> d.duration,
                    rank_before |-> old_rank, rank_after |-> new_rank,
                    rating_change |-> rating_change,
                    reward_amount |-> IF won THEN <<reward_amount>> ELSE <<>>]), LAMBDA h4 :
    Then(Emit(h4, "economy_source", end_time,
                   [currency |-> "gold", amount |-> reward_amount,
                    balance_after |-> h4.a.gold, source |-> "arena_reward"]), LAMBDA h5 :
    LET h6 == [h5 EXCEPT !.a = QuestProgress(h5.a, "dq_arena", 1)]
    IN  IF is_paid /\ h.a.gems < cost THEN Return(h, timestamp)
        ELSE IF won THEN Return(h6, end_time)
        ELSE Return(h4, end_time))))))))

(***************************************************************************)
(* Guilds.  h.guilds is world.guilds; guild i has guild_id i.              *)
(***************************************************************************)
should_attack_guild_boss(cfg, agent, value) ==
    IF agent.guild_id = 0 THEN FALSE
    ELSE IF agent.attacked_guild_boss_today THEN FALSE
    ELSE DrawBelow(value, cfg.player_types[agent.agent_type].guild_engagement)

should_join_guild(cfg, agent, value) ==
    IF agent.guild_id # 0 THEN FALSE
    ELSE IF agent.player_level < cfg.feature_unlocks.guild THEN FALSE
    ELSE DrawBelow(value, FMul(cfg.player_types[agent.agent_type].guild_engagement,
                               Frac(3, 10)))

\* WorldState.damage_guild_boss: [guilds, hp] with hp the value returned
\* a boss that is defeated without coming back at the next level
damage_guild_boss_no_levelup(guilds, guild_id, damage_pct) ==
    IF guild_id \in DOMAIN guilds
    THEN LET left == FAdd(guilds[guild_id].boss_hp_remaining_pct,
                          Frac(0 - damage_pct.n, damage_pct.d))
             hp == IF FLess(left, Frac(0, 1)) THEN Frac(0, 1) ELSE left
         IN  [guilds |-> [guilds EXCEPT ![guild_id].boss_hp_remaining_pct = hp], hp |-> hp]
    ELSE [guilds |-> guilds, hp |-> Frac(100, 1)]

damage_guild_boss(guilds, guild_id, damage_pct) ==
    IF guild_id \in DOMAIN guilds
    THEN LET left == FAdd(guilds[guild_id].boss_hp_remaining_pct,
                          Frac(0 - damage_pct.n, damage_pct.d))
             hp == IF FLess(left, Frac(0, 1)) THEN Frac(0, 1) ELSE left
         IN  IF FLeq(hp, Frac(0, 1))
             THEN [guilds |-> [guilds EXCEPT ![guild_id].boss_level = @ + 1,
                                             ![guild_id].boss_hp_remaining_pct = Frac(100, 1)],
                   hp |-> Frac(100, 1)]
             ELSE [guilds |-> [guilds EXCEPT ![guild_id].boss_hp_remaining_pct = hp],
                   hp |-> hp]
    ELSE [guilds |-> guilds, hp |-> Frac(100, 1)]

_attack_guild_boss(cfg, h, timestamp, d) ==
    LET guild == h.guilds[h.a.guild_id]
        raw == FMul(Frac(h.a.team_power, 1000), d.uniform)
    IN
    Then(FMin(raw, Frac(10, 1)), LAMBDA damage_pct :
    Then(FloorF(FMul(damage_pct, Frac(10000, 1))), LAMBDA damage_dealt :
    Then(damage_guild_boss(h.guilds, h.a.guild_id, damage_pct), LAMBDA r :
    LET g1 == [h EXCEPT !.guilds = r.guilds]
        after == g1.guilds[h.a.guild_id]
        h1 == Emit(g1, "guild_boss_attack", timestamp,
                   [guild_id |-> h.a.guild_id, boss_level |-> after.boss_level,
                    damage_dealt |-> damage_dealt, team_power |-> h.a.team_power,
                    attempt_number |-> 1, boss_hp_remaining_pct |-> r.hp])
        reward_gold == 500 + after.boss_level * 100
    IN
    Then([h1 EXCEPT !.a.attacked_guild_boss_today = TRUE, !.a.gold = @ + reward_gold], LAMBDA h2 :
    LET h3 == Emit(h2, "economy_source", timestamp,
                   [currency |-> "gold", amount |-> reward_gold, balance_after |-> h2.a.gold,
                    source |-> "guild_reward"])
    IN  IF h.a.guild_id = 0 \/ h.a.attacked_guild_boss_today THEN Return(h, timestamp)
        ELSE IF h.a.guild_id \notin DOMAIN h.guilds THEN Return(h, timestamp)
        ELSE Return(h3, timestamp + d.duration)))))

\* the guilds with space, in registry order
available_guilds(guilds) == {i \in DOMAIN guilds : ~is_full(guilds[i])}

\* a registry that does not count the member
join_guild_uncounted(guilds, guild_id) == guilds

\* WorldState.join_guild: the guilds afterwards
join_guild(guilds, guild_id) ==
    IF guild_id \in DOMAIN guilds /\ ~is_full(guilds[guild_id])
    THEN [guilds EXCEPT ![guild_id].member_count = @ + 1]
    ELSE guilds

\* d.guild is the guild get_random_guild returns (0 when none has space)
_join_guild(cfg, h, timestamp, d) ==
    LET joined == d.guild \in DOMAIN h.guilds /\ ~is_full(h.guilds[d.guild])
    IN
    Then([h EXCEPT !.guilds = join_guild(h.guilds, d.guild),
                        !.a.guild_id = d.guild, !.a.guild_joined_date = h.day], LAMBDA h1 :
    LET h2 == Emit(h1, "guild_join", timestamp,
                   [guild_id |-> d.guild, join_method |-> "search",
                    guild_members_count |-> h1.guilds[d.guild].member_count])
    IN  IF h.a.guild_id # 0 THEN Return(h, timestamp)
        ELSE IF d.guild = 0 THEN Return(h, timestamp)
        ELSE IF joined THEN Return(h2, timestamp + d.duration)
        ELSE Return(h, timestamp + d.duration))

(***************************************************************************)
(* Rewarded ads.                                                           *)
(***************************************************************************)
should_watch_ad(cfg, agent, value) ==
    LET base == cfg.player_types[agent.agent_type].ad_watch_probability
        base_prob == IF agent.gems > 1000 THEN FMul(base, Frac(7, 10)) ELSE base
    IN  IF agent.ads_watched_today >= cfg.max_ads_per_day THEN FALSE
        ELSE DrawBelow(value, base_prob)

\* an ad watched to the end that is not counted in ads_watched_today
_watch_ad_uncounted(cfg, h, timestamp, d) ==
    Then([h EXCEPT !.a.gems = @ + cfg.ad_reward_gems], LAMBDA c1 :
    Then(Emit(c1, "ad_completed", timestamp + 17,
              [placement |-> "shop", ad_network |-> "admob", reward_currency |-> "gems",
               reward_amount |-> cfg.ad_reward_gems, watch_duration_sec |-> 15]), LAMBDA c2 :
    Return(Emit(c2, "economy_source", timestamp + 17,
                [currency |-> "gems", amount |-> cfg.ad_reward_gems,
                 balance_after |-> c2.a.gems, source |-> "ad_reward"]), timestamp + 17)))

\* d.cos decides the placement, the network and the lengths; d.skip is the
\* draw for skipping
_watch_ad(cfg, h, timestamp, d) ==
    LET placement == IF d.cos = 0 THEN "main_screen" ELSE "energy_refill"
        ad_network == IF d.cos = 0 THEN "unity_ads" ELSE "admob"
        h1 == Emit(h, "ad_opportunity", timestamp,
                   [placement |-> placement, ads_watched_today |-> h.a.ads_watched_today,
                    ads_available |-> cfg.max_ads_per_day - h.a.ads_watched_today])
        ts == timestamp + 2
    IN
    Then(Emit(h1, "ad_started", ts, [placement |-> placement, ad_network |-> ad_network]), LAMBDA h2 :
    LET skip_time == IF d.cos = 0 THEN 5 ELSE 15
        s1 == Emit(h2, "ad_skipped", ts + skip_time,
                   [placement |-> placement, ad_network |-> ad_network,
                    skip_after_sec |-> skip_time, skip_reason |-> "user_closed"])
        watch_duration == IF d.cos = 0 THEN 15 ELSE 30
        end_time == ts + watch_duration
        reward_amount == cfg.ad_reward_gems
        c1 == [h2 EXCEPT !.a.gems = @ + reward_amount, !.a.ads_watched_today = @ + 1]
    IN
    Then(Emit(c1, "ad_completed", end_time,
                   [placement |-> placement, ad_network |-> ad_network,
                    reward_currency |-> "gems", reward_amount |-> reward_amount,
                    watch_duration_sec |-> watch_duration]), LAMBDA c2 :
    LET c3 == Emit(c2, "economy_source", end_time,
                   [currency |-> "gems", amount |-> reward_amount,
                    balance_after |-> c2.a.gems, source |-> "ad_reward"])
    IN  IF h.a.ads_watched_today >= cfg.max_ads_per_day THEN Return(h, timestamp)
        ELSE IF DrawBelow(d.skip, Frac(5, 100)) THEN Return(s1, ts + skip_time)
        ELSE Return(c3, end_time)))

(***************************************************************************)
(* Shop and purchases.  Prices and spend are in cents.                     *)
(***************************************************************************)
FreeTypes == {"free_engaged", "free_casual", "free_churner"}

trigger_prob(trigger) ==
    IF trigger = "starter_pack_offer" THEN Frac(15, 100)
    ELSE IF trigger = "out_of_gems_gacha" THEN Frac(8, 100)
    ELSE IF trigger = "out_of_energy" THEN Frac(3, 100)
    ELSE IF trigger = "pity_close" THEN Frac(12, 100)
    ELSE IF trigger = "limited_banner_ending" THEN Frac(10, 100)
    ELSE IF trigger = "stuck_progression" THEN Frac(5, 100)
    ELSE IF trigger = "monthly_pass_reminder" THEN Frac(20, 100)
    ELSE IF trigger = "late_game_offer" THEN Frac(10, 100)
    ELSE Frac(2, 100)

type_mult(agent_type) ==
    IF agent_type = "whale" THEN Frac(3, 1)
    ELSE IF agent_type = "dolphin" THEN Frac(3, 2)
    ELSE IF agent_type = "minnow" THEN Frac(8, 10)
    ELSE IF agent_type = "free_engaged" THEN Frac(1, 10)
    ELSE IF agent_type = "free_casual" THEN Frac(5, 100)
    ELSE IF agent_type = "free_churner" THEN Frac(2, 100)
    ELSE One

\* d.free is the draw compared with 0.001 for a free player, d.iap the
\* draw compared with the probability
should_attempt_iap(cfg, agent, trigger, d) ==
    Then(FMul(FMul(trigger_prob(trigger), type_mult(agent.agent_type)),
                   agent.source_monetization_mod), LAMBDA p1 :
    LET base_prob == IF trigger = "late_game_offer" /\ HasTest(agent, "late_game_offer")
                     THEN FMul(p1, cfg.ab_effects.late_game_offer[
                                       agent.ab_tests["late_game_offer"]].iap_conversion_mult)
                     ELSE p1
    IN  IF agent.agent_type \in FreeTypes /\ d.free * 10 > 1 THEN FALSE
        ELSE DrawBelow(d.iap, base_prob))

\* the starter pack offered to every buyer, whatever was bought before
select_iap_product_starter(agent, trigger, d) == "starter_pack"

select_iap_product(agent, trigger, d) ==
    IF trigger = "starter_pack_offer" /\ ~agent.bought_starter_pack THEN "starter_pack"
    ELSE IF trigger = "monthly_pass_reminder" /\ ~agent.has_active_monthly THEN "monthly_pass"
    ELSE IF agent.agent_type = "whale" THEN (IF d.cos = 0 THEN "gems_tier4" ELSE "gems_tier5")
    ELSE IF agent.agent_type = "dolphin" THEN (IF d.cos = 0 THEN "gems_tier2" ELSE "gems_tier4")
    ELSE (IF d.cos = 0 THEN "gems_tier1" ELSE "gems_tier2")

RECURSIVE vip_scan(_, _, _, _)
vip_scan(levels, total_spent, i, current_level) ==
    IF i > Len(levels) THEN current_level
    ELSE vip_scan(levels, total_spent, i + 1,
                  IF total_spent >= levels[i].threshold /\ levels[i].level > current_level
                  THEN levels[i].level ELSE current_level)

get_vip_level_for_spend(cfg, total_spent) == vip_scan(cfg.vip_levels, total_spent, 1, 0)

\* int(timestamp.timestamp() * 1000): the seconds and the milliseconds
generate_transaction_id(timestamp) == <<"txn", timestamp, 0>>

_make_purchase(cfg, h, timestamp0, trigger, d) ==
    Then(select_iap_product(h.a, trigger, d), LAMBDA product_id :
    LET product_config == cfg.shop_products[product_id]
        price == product_config.price_usd
    IN
    Then(Emit(h, "iap_initiated", timestamp0,
                   [product_id |-> product_id, price_usd |-> price]), LAMBDA h1 :
    LET timestamp == timestamp0 + d.wait
        f1 == Emit(h1, "iap_failed", timestamp,
                   [product_id |-> product_id, price_usd |-> price,
                    fail_reason |-> IF d.cos = 0 THEN "cancelled" ELSE "network_error"])
        gems == product_config.gems
        tickets == product_config.summon_tickets
    IN
    Then([h1 EXCEPT !.a.summon_tickets = @ + tickets, !.a.gems = @ + gems,
                         !.a.total_spent_usd = @ + price, !.a.purchase_count = @ + 1,
                         !.a.vip_points = @ + price,
                         !.a.vip_level = get_vip_level_for_spend(cfg, h1.a.total_spent_usd + price)], LAMBDA h2 :
    LET h3 == IF product_id = "starter_pack" THEN [h2 EXCEPT !.a.bought_starter_pack = TRUE]
              ELSE IF product_id = "monthly_pass"
              THEN [h2 EXCEPT !.a.has_active_monthly = TRUE, !.a.monthly_pass_start = h.day,
                              !.a.monthly_pass_day = 0]
              ELSE h2
    IN
    Then(Emit(h3, "iap_purchase", timestamp,
                   [product_id |-> product_id, price_usd |-> price, gems_received |-> gems,
                    items_received |-> IF tickets # 0 THEN <<tickets>> ELSE <<>>,
                    is_first_purchase |-> (h3.a.purchase_count = 1),
                    purchase_number |-> h3.a.purchase_count, vip_points_earned |-> price,
                    transaction_id |-> generate_transaction_id(timestamp)]), LAMBDA h4 :
    LET h5 == Emit(h4, "economy_source", timestamp,
                   [currency |-> "gems", amount |-> gems, balance_after |-> h4.a.gems,
                    source |-> "iap_purchase"])
    IN  IF DrawBelow(d.fail, Frac(1, 10)) THEN Return(f1, timestamp)
        ELSE Return(h5, timestamp)))))

\* the trigger of a shop visit, "none" for None; d.monthly is the draw of
\* the monthly pass reminder
shop_trigger(h, d) ==
    IF ~h.a.bought_starter_pack THEN "starter_pack_offer"
    ELSE IF h.a.pity_counter >= 70 THEN "pity_close"
    ELSE IF h.a.energy < 20 THEN "out_of_energy"
    ELSE IF ~h.a.has_active_monthly /\ DrawBelow(d.monthly, Frac(3, 10))
    THEN "monthly_pass_reminder"
    ELSE IF h.day - h.a.install_date >= 30 THEN "late_game_offer"
    ELSE "none"

_browse_shop(cfg, h, timestamp0, d) ==
    Then(Emit(h, "shop_view", timestamp0,
                   [shop_tab |-> IF d.cos = 0 THEN "iap" ELSE "special",
                    player_gems |-> h.a.gems]), LAMBDA h1 :
    LET timestamp == timestamp0 + d.duration
        trigger == shop_trigger(h1, d)
    IN  IF trigger # "none" /\ should_attempt_iap(cfg, h1.a, trigger, d)
        THEN _make_purchase(cfg, h1, timestamp, trigger, d)
        ELSE Return(h1, timestamp))

(***************************************************************************)
(* The Simulator.  pc is the place run() has reached: "new" (constructed), *)
(* "day" (head of the day loop), "installs" (_create_daily_installs),      *)
(* "agents" (the agent loop of _simulate_day), "session" (before a session *)
(* of _simulate_agent_day), "loop" (head of the main loop of a session),   *)
(* "pulls" (the pull loop of _do_gacha), "snapshot" (after the sessions),  *)
(* "done" (run() has returned).  loc holds the locals of the calls in      *)
(* progress.  created and written count the events the emitter has created *)
(* and the events flushed to the output; emitted holds the events the last *)
(* step created.  actions_left and returns_left bound the draws explored.  *)
(***************************************************************************)
VARIABLES simA, simB, probe

vars == <<simA, simB, probe>>

\* probe holds a method called on its own, outside a run
NoProbe == [op |-> "none"]

\* the values of the A/B hash the model draws
HashValues == {0, 5000, 9999}

NoLoc == [session_times |-> <<>>, i |-> 0, start_time |-> 0, current_time |-> 0,
          end_time |-> 0, g |-> <<>>]

\* explore records the draws a run is explored with: the install draws,
\* the session times of a day, whether both ends of a range are drawn, the
\* numbers of loop actions and of returns after the install day, and the
\* days since install on which a return is drawn
\* MetadataWriter.__init__: the stats of the metadata
MetadataWriter ==
    [total_events |-> 0, events_by_type |-> [t \in {} |-> 0], total_installs |-> 0,
     installs_by_source |-> [t \in {} |-> 0], installs_by_player_type |-> [t \in {} |-> 0]]

\* d[key] += 1 with a missing key counted from 0
Incremented(d, key) ==
    [k \in DOMAIN d \cup {key} |-> IF k = key THEN (IF key \in DOMAIN d THEN d[key] ELSE 0) + 1
                                   ELSE d[k]]

increment_event_count(metadata, event_name) ==
    [metadata EXCEPT !.total_events = @ + 1,
                     !.events_by_type = Incremented(@, event_name)]

increment_installs(metadata, source, player_type) ==
    [metadata EXCEPT !.total_installs = @ + 1,
                     !.installs_by_source = Incremented(@, source),
                     !.installs_by_player_type = Incremented(@, player_type)]

\* an output that takes each event twice
write_event_twice(out, event) ==
    [sink |-> out.sink \o <<event.event_id, event.event_id>>,
     metadata |-> increment_event_count(out.metadata, event.event_name)]

\* OutputManager.write_event: the event goes to the writers (sink holds the
\* event ids in the order written) and is counted in the metadata
write_event(out, event) ==
    [sink |-> Append(out.sink, event.event_id),
     metadata |-> increment_event_count(out.metadata, event.event_name)]

\* OutputManager.write_events
RECURSIVE write_events(_, _)
write_events(out, events) ==
    IF events = <<>> THEN out
    ELSE write_events(write_event(out, Head(events)), Tail(events))

Simulator(cfg, explore, salt) ==
    [cfg |-> cfg, explore |-> explore, salt |-> salt, pc |-> "new", day_number |-> 0,
     agents |-> <<>>, agent_counter |-> 0, installs_per_day |-> <<>>, installs_left |-> 0,
     cur |-> 0, guilds |-> <<>>, banners |-> <<>>, gacha_rates |-> cfg.gacha_rates,
     md5 |-> <<>>, loc |-> NoLoc, emitted |-> <<>>, created |-> 0, written |-> 0,
     buffer |-> <<>>, sink |-> <<>>, metadata |-> MetadataWriter,
     sessions |-> 0, actions_left |-> explore.max_actions,
     returns_left |-> explore.max_returns]

\* the handler state for agent i of s at timestamp t
H(s, i, t) ==
    [a |-> s.agents[i], ev |-> <<>>, day |-> s.day_number, salt |-> s.salt,
     n |-> s.created, t |-> t, guilds |-> s.guilds]

\* s after the handler whose state is h has run on agent i
Commit(s, i, h) ==
    [s EXCEPT !.agents[i] = h.a, !.guilds = h.guilds, !.emitted = h.ev,
              !.created = @ + Len(h.ev),
              !.buffer = @ \o [k \in 1..Len(h.ev) |->
                                 [event_id |-> h.ev[k].event_id,
                                  event_name |-> h.ev[k].event_name]]]

\* _flush_events
_flush_events(s) ==
    Then(write_events([sink |-> s.sink, metadata |-> s.metadata], s.buffer), LAMBDA out :
        [s EXCEPT !.sink = out.sink, !.metadata = out.metadata,
                  !.written = @ + Len(s.buffer), !.buffer = <<>>])

\* run() up to the day loop: _initialize and _calculate_install_distribution
InitializeStep(s, d) ==
    [s EXCEPT !.pc = "day",
              !.guilds = NewGuilds(s.cfg),
              !.banners = _generate_banners(s.cfg.duration_days, <<d.featured>>),
              !.installs_per_day = _calculate_install_distribution(s.cfg.total_installs,
                                                                   s.cfg.duration_days)]

InitializeDraws(s) ==
    {[featured |-> f] : f \in {get_heroes_by_rarity(s.cfg, "legendary")[1]}}

\* the head of the day loop and the start of _simulate_day
StartDayStep(s) ==
    LET n == s.installs_per_day[s.day_number + 1]
    IN  [s EXCEPT !.day_number = @ + 1, !.installs_left = n, !.cur = 1, !.emitted = <<>>,
                  !.pc = IF n > 0 THEN "installs" ELSE "agents"]

\* one iteration of the install loop of _create_daily_installs
CreateInstallStep(s, d) ==
    LET agent == create_agent(s.cfg, s.md5, s.agent_counter, s.day_number, d.type, d.fresh,
                              FALSE)
    IN
    Then([s EXCEPT !.agents = Append(@, agent), !.agent_counter = @ + 1,
                        !.metadata = increment_installs(@, agent.install_source,
                                                        agent.agent_type),
                        !.md5 = RememberAll(s.md5, CreationTests(s.cfg), s.agent_counter + 1,
                                            d.fresh),
                        !.sessions = @ + 1, !.installs_left = @ - 1,
                        !.pc = IF s.installs_left > 1 THEN "installs" ELSE "agents"], LAMBDA s1 :
    LET i == Len(s1.agents)
        h == _simulate_first_session(s.cfg, H(s1, i, 0), generate_session_id(s.salt, s1.sessions),
                                     d.tod, d.tut, d.heroes, 3)
    IN  _flush_events(Commit(s1, i, h)))

\* the draws of an install the model explores: every player type, hash
\* value, time of day, tutorial and choice of heroes occurs in one of them
InstallProfiles(cfg) ==
    LET c == get_heroes_by_rarity(cfg, "common")
        c1 == c[1]
    IN
    Then(c[Len(c)], LAMBDA c2 :
        << [type |-> 0, fresh |-> 0, tod |-> 0,
            tut |-> [skip |-> {}, hi |-> FALSE], heroes |-> <<c1, c1, c1>>],
           [type |-> 99, fresh |-> 5000, tod |-> 86399,
            tut |-> [skip |-> {3}, hi |-> TRUE], heroes |-> <<c1, c2, c1>>],
           [type |-> 0, fresh |-> 9999, tod |-> 0,
            tut |-> [skip |-> 3..12, hi |-> FALSE], heroes |-> <<c2, c1, c2>>],
           [type |-> 99, fresh |-> 0, tod |-> 0,
            tut |-> [skip |-> {}, hi |-> TRUE], heroes |-> <<c1, c2, c2>>] >>)

InstallDraws(s) == {InstallProfiles(s.cfg)[i] : i \in s.explore.profiles}

Cur(s) == s.agents[s.cur]

\* a loop that takes a churned agent back instead of skipping it
SkipChurnedStep_rejoin(s) == [s EXCEPT !.agents[s.cur].is_churned = FALSE, !.emitted = <<>>]

\* the agent loop skips a churned agent
SkipChurnedStep(s) == [s EXCEPT !.cur = @ + 1, !.emitted = <<>>]

\* the draws of will_return_today the model explores for the current agent
ReturnValues(s) ==
    Then(s.day_number - Cur(s).install_date, LAMBDA days_since :
        IF days_since = 0 THEN Coin
        ELSE IF s.returns_left > 0 /\ days_since \in s.explore.return_days THEN Coin
        ELSE {99})

\* the agent does not return: the permanent churn draw
NotReturnStep(s, d) ==
    LET days_since == s.day_number - Cur(s).install_date
        churn == DrawBelow(d.churn, _get_permanent_churn_probability(days_since))
    IN  [s EXCEPT !.agents[s.cur] = IF churn THEN [@ EXCEPT !.is_churned = TRUE,
                                                           !.churn_date = s.day_number]
                                    ELSE @,
                  !.cur = @ + 1, !.emitted = <<>>]

\* _simulate_agent_day up to the session loop
ReturnTodayStep(s, d) ==
    Then(reset_daily_state(Cur(s)), LAMBDA a0 :
    Then([a0 EXCEPT !.daily_quests = generate_daily_quests(s.cfg, a0)], LAMBDA a1 :
    Then(activate_late_game_offer(s.cfg, s.md5, a1, s.day_number, d.fresh), LAMBDA a2 :
    LET a3 == update_login_streak(a2, s.day_number)
        days_since == s.day_number - a3.install_date
    IN  [s EXCEPT !.agents[s.cur] = a3,
                  !.md5 = IF HasTest(a2, "late_game_offer") /\ ~HasTest(a1, "late_game_offer")
                          THEN Remember(s.md5, "late_game_offer", a1.user_id, d.fresh)
                          ELSE @,
                  !.returns_left = IF days_since > 0 THEN @ - 1 ELSE @,
                  !.loc = [NoLoc EXCEPT !.session_times =
                              [k \in 1..Len(d.times) |-> (s.day_number - 1) * 86400 + d.times[k]],
                                        !.i = 1],
                  !.pc = "session", !.emitted = <<>>])))

ReturnDraws(s) ==
    {[value |-> v, fresh |-> f, times |-> q] :
        v \in ReturnValues(s),
        f \in IF s.day_number - Cur(s).install_date >= 30 THEN HashValues ELSE {0},
        q \in s.explore.plans}

\* _simulate_session up to the main loop, for session loc.i of the day
SessionStartStep(s, d) ==
    LET start_time == s.loc.session_times[s.loc.i]
        s1 == [s EXCEPT !.sessions = @ + 1]
    IN
    Then(session_begin(s.cfg, H(s1, s.cur, start_time),
                           generate_session_id(s.salt, s1.sessions), start_time, s.loc.i,
                           d.waits), LAMBDA h :
    LET duration_min == get_session_duration_minutes(s.cfg, h.a, s.loc.i)
    IN  [Commit(s1, s.cur, h) EXCEPT !.loc.start_time = start_time,
                                     !.loc.current_time = h.t,
                                     !.loc.end_time = start_time + duration_min * 60,
                                     !.pc = "loop"])

SessionStartDraws(s) ==
    {[waits |-> w] : w \in IF s.explore.both THEN {<<5, 3, 2>>, <<15, 10, 5>>}
                           ELSE {<<15, 10, 5>>}}

\* remaining_time > 1, remaining_time being in minutes
LoopContinues(s) == s.loc.end_time - s.loc.current_time > 60

\* a first branch of the loop that does not look at the energy
can_play_stage_any_energy(cfg, agent, value) == DrawBelow(value, Frac(85, 100))

\* the condition of the first branch of the loop: play a campaign stage
can_play_stage(cfg, agent, value) ==
    agent.energy >= cfg.stage_energy_cost /\ DrawBelow(value, Frac(85, 100))

\* the gates of the main loop in priority order, g[k] being the draw of
\* gate k; gate 9 is taking no action
Gate(cfg, agent, g, k) ==
    IF k = 1 THEN can_play_stage(cfg, agent, g[1])
    ELSE IF k = 2 THEN DrawBelow(g[2], Frac(70, 100))
    ELSE IF k = 3 THEN should_do_gacha(cfg, agent, g[3])
    ELSE IF k = 4 THEN should_do_arena(cfg, agent, g[4])
    ELSE IF k = 5 THEN should_attack_guild_boss(cfg, agent, g[5])
    ELSE IF k = 6 THEN should_join_guild(cfg, agent, g[6])
    ELSE IF k = 7 THEN should_watch_ad(cfg, agent, g[7])
    ELSE IF k = 8 THEN DrawBelow(g[8], Frac(30, 100))
    ELSE TRUE

\* the branch of the elif chain taken under the draws g
Selected(cfg, agent, g) ==
    CHOOSE k \in 1..9 : Gate(cfg, agent, g, k) /\ \A j \in 1..(k - 1) : ~Gate(cfg, agent, g, j)

\* the gate draws the model explores: the first k - 1 gates fail and the
\* others pass, a gate outside explore.gates failing always; every gate
\* fails once the action budget of the run is spent
GateDraws(s) ==
    IF s.actions_left > 0
    THEN {[i \in 1..8 |-> IF i < k \/ i \notin s.explore.gates THEN 99 ELSE 0] : k \in 1..9}
    ELSE {[i \in 1..8 |-> 99]}

Chosen(s, k) == \E g \in GateDraws(s) : Selected(s.cfg, Cur(s), g) = k

\* s after a handler of the main loop has returned h
AfterHandler(s, h) ==
    [Commit(s, s.cur, h) EXCEPT !.loc.current_time = h.t, !.actions_left = @ - 1]

PlayStageStep(s, d) == AfterHandler(s, _play_stage(s.cfg, H(s, s.cur, 0), s.loc.current_time, d))

StageDraws(s) ==
    {[success |-> x, cos |-> x, duration |-> t] :
        x \in Coin, t \in randint(s.explore.both, 30, 120)}

UpgradeHeroStep(s, d) ==
    AfterHandler(s, _upgrade_hero(s.cfg, H(s, s.cur, 0), s.loc.current_time, d))

UpgradeDraws(s) == {[duration |-> t] : t \in randint(s.explore.both, 5, 15)}

\* _do_gacha up to the pull loop
DoGachaStep(s, d) ==
    Then(_do_gacha_begin(s.cfg, s.banners, H(s, s.cur, 0), s.loc.current_time, d), LAMBDA h :
    Then(gacha_pulls(s.cfg, s.banners, H(s, s.cur, 0), d), LAMBDA g :
        IF g.num_pulls = 0 THEN AfterHandler(s, h)
        ELSE [AfterHandler(s, h) EXCEPT !.loc.g = g, !.pc = "pulls"]))

GachaDraws(s) ==
    {[limited |-> x, duration |-> t] : x \in Coin, t \in randint(s.explore.both, 3, 10)}

\* one pull of _do_gacha, and the rest of _do_gacha after the last pull
GachaPullStep(s, d) ==
    Then(_do_gacha_pull(s.cfg, s.gacha_rates, H(s, s.cur, s.loc.current_time), s.loc.g, d), LAMBDA r :
    LET last == s.loc.g.i + 1 >= s.loc.g.num_pulls
    IN
    Then(IF last THEN _do_gacha_finish(s.cfg, r.h, s.loc.g.num_pulls) ELSE r.h, LAMBDA h :
        [Commit(s, s.cur, h) EXCEPT !.loc.current_time = h.t,
                                    !.gacha_rates = r.config_rates,
                                    !.loc.g = IF last THEN <<>> ELSE [@ EXCEPT !.i = @ + 1],
                                    !.pc = IF last THEN "loop" ELSE "pulls"]))

\* the draws of a pull: one per rarity at the configured rates in a single
\* pull, two of them in a pull of a ten-pull
PullDraws(s) ==
    {[roll |-> x, cos |-> IF x < 40 THEN 0 ELSE 99] :
        x \in IF s.loc.g.num_pulls > 1 THEN {20, 99} ELSE Draws}

DoArenaStep(s, d) == AfterHandler(s, _do_arena(s.cfg, H(s, s.cur, 0), s.loc.current_time, d))

ArenaDraws(s) ==
    {[uniform |-> u, rank |-> r, won |-> w, duration |-> t] :
        u \in {Frac(4, 5), Frac(6, 5)}, r \in {100}, w \in Coin,
        t \in randint(s.explore.both, 30, 90)}

AttackGuildBossStep(s, d) ==
    AfterHandler(s, _attack_guild_boss(s.cfg, H(s, s.cur, 0), s.loc.current_time, d))

BossDraws(s) ==
    {[uniform |-> u, duration |-> t] :
        u \in {Frac(4, 5), Frac(6, 5)}, t \in randint(s.explore.both, 30, 60)}

JoinGuildStep(s, d) ==
    AfterHandler(s, _join_guild(s.cfg, H(s, s.cur, 0), s.loc.current_time, d))

\* get_random_guild: a guild with space, 0 when there is none
JoinDraws(s) ==
    {[guild |-> g, duration |-> t] :
        g \in IF available_guilds(s.guilds) = {} THEN {0} ELSE available_guilds(s.guilds),
        t \in randint(s.explore.both, 10, 30)}

WatchAdStep(s, d) == AfterHandler(s, _watch_ad(s.cfg, H(s, s.cur, 0), s.loc.current_time, d))

AdDraws(s) == {[cos |-> x, skip |-> x] : x \in Coin}

BrowseShopStep(s, d) ==
    AfterHandler(s, _browse_shop(s.cfg, H(s, s.cur, 0), s.loc.current_time, d))

ShopDraws(s) ==
    {[cos |-> f, duration |-> t, monthly |-> f, free |-> x, iap |-> x, wait |-> w, fail |-> f] :
        t \in randint(s.explore.both, 5, 20), w \in randint(s.explore.both, 5, 15),
        x \in Coin, f \in Coin}

\* no branch of the elif chain is taken: the clock advances by action_time
IdleTickStep(s, d) ==
    [s EXCEPT !.loc.current_time = @ + d.action_time, !.emitted = <<>>]

IdleDraws(s) == {[action_time |-> t] : t \in randint(s.explore.both, 10, 60)}

\* _simulate_session after the main loop
SessionEndStep(s) ==
    LET h == session_finish(H(s, s.cur, 0), s.loc.current_time)
        more == s.loc.i < Len(s.loc.session_times)
    IN  [_flush_events(Commit(s, s.cur, h)) EXCEPT !.loc.i = @ + 1,
                                                   !.pc = IF more THEN "session" ELSE "snapshot"]

\* the daily snapshot of _simulate_agent_day
SnapshotStep(s) ==
    LET h == snapshot(H(s, s.cur, 0), s.loc.session_times[1])
    IN  [_flush_events(Commit(s, s.cur, h)) EXCEPT !.loc = NoLoc, !.cur = @ + 1,
                                                   !.pc = "agents"]

\* WorldState.advance_day, after the agent loop of the day
advance_day(guilds) ==
    [i \in DOMAIN guilds |-> [guilds[i] EXCEPT !.boss_hp_remaining_pct = Frac(100, 1)]]

EndDayStep(s) == [s EXCEPT !.guilds = advance_day(s.guilds), !.pc = "day", !.emitted = <<>>]

\* run() returns
FinishStep(s) == [s EXCEPT !.pc = "done", !.emitted = <<>>]

(***************************************************************************)
(* The enabling conditions of the steps.                                   *)
(***************************************************************************)
CanInitialize(s) == s.pc = "new"
CanStartDay(s) == s.pc = "day" /\ s.day_number < s.cfg.duration_days
CanFinish(s) == s.pc = "day" /\ s.day_number >= s.cfg.duration_days
CanCreateInstall(s) == s.pc = "installs" /\ s.installs_left > 0
AtAgent(s) == s.pc = "agents" /\ s.cur <= Len(s.agents)
CanSkipChurned(s) == AtAgent(s) /\ Cur(s).is_churned
CanReturnToday(s, d) ==
    AtAgent(s) /\ ~Cur(s).is_churned
    /\ will_return_today(s.cfg, Cur(s), s.day_number - Cur(s).install_date, d.value)
CanNotReturn(s, d) ==
    AtAgent(s) /\ ~Cur(s).is_churned
    /\ ~will_return_today(s.cfg, Cur(s), s.day_number - Cur(s).install_date, d.value)
CanEndDay(s) == s.pc = "agents" /\ s.cur > Len(s.agents)
CanSessionStart(s) == s.pc = "session"
CanLoop(s, k) == s.pc = "loop" /\ LoopContinues(s) /\ Chosen(s, k)
CanGachaPull(s) == s.pc = "pulls"
CanSessionEnd(s) == s.pc = "loop" /\ ~LoopContinues(s)
CanSnapshot(s) == s.pc = "snapshot"

NotReturnDraws(s) == {[value |-> v, churn |-> c] : v \in ReturnValues(s), c \in Coin}

(***************************************************************************)
(* One run: simA runs, simB is not started.                                *)
(***************************************************************************)
\* a run of one install in which the loop actions are explored
ScenarioPlay ==
    [cfg |-> [Config EXCEPT !.duration_days = PlayDays, !.total_installs = 1],
     explore |-> [profiles |-> 1..4, plans |-> {<<0>>, <<0, 86399>>}, both |-> FALSE,
                  max_actions |-> MaxActions, max_returns |-> 0, return_days |-> {},
                  gates |-> 1..8]]

\* a run of several installs in which returning and churning are explored
ScenarioChurn ==
    [cfg |-> Config,
     explore |-> [profiles |-> 1..4, plans |-> {<<0>>, <<0, 0>>, <<86399>>}, both |-> FALSE,
                  max_actions |-> 0, max_returns |-> MaxReturns, return_days |-> {1, 2},
                  gates |-> 1..8]]

\* a long run of one install
ScenarioLong ==
    [cfg |-> [Config EXCEPT !.duration_days = LongDays, !.total_installs = 1],
     explore |-> [profiles |-> {1}, plans |-> {<<0>>}, both |-> FALSE,
                  max_actions |-> 1, max_returns |-> MaxReturns, return_days |-> {30, 31},
                  gates |-> 1..8]]

\* one install playing stages and the guild features
ScenarioGuild ==
    [cfg |-> [Config EXCEPT !.duration_days = PlayDays, !.total_installs = 1],
     explore |-> [profiles |-> {1}, plans |-> {<<0, 0, 86399>>}, both |-> FALSE,
                  max_actions |-> MaxGuildActions, max_returns |-> 0, return_days |-> {},
                  gates |-> {1, 5, 6}]]

\* one install of a free player summoning and watching ads
ScenarioGacha ==
    [cfg |-> [Config EXCEPT !.duration_days = PlayDays, !.total_installs = 1],
     explore |-> [profiles |-> {2}, plans |-> {<<0, 0, 86399>>}, both |-> FALSE,
                  max_actions |-> MaxGachaActions, max_returns |-> 0, return_days |-> {},
                  gates |-> {3, 7}]]

\* one install that starts without gold and upgrades heroes
ScenarioBroke ==
    [cfg |-> [Config EXCEPT !.duration_days = PlayDays, !.total_installs = 1,
                            !.initial_gold = 0],
     explore |-> [profiles |-> {1}, plans |-> {<<0>>}, both |-> FALSE,
                  max_actions |-> MaxActions, max_returns |-> 0, return_days |-> {},
                  gates |-> {2}]]

Scenarios ==
    {ScenarioPlay, ScenarioChurn, ScenarioLong, ScenarioGuild, ScenarioGacha, ScenarioBroke}

Init ==
    \E sc \in Scenarios :
        /\ simA = Simulator(sc.cfg, sc.explore, "A")
        /\ simB = Simulator(sc.cfg, sc.explore, "B")
        /\ probe = NoProbe

Initialize ==
    /\ CanInitialize(simA)
    /\ \E d \in InitializeDraws(simA) : simA' = InitializeStep(simA, d)
    /\ UNCHANGED <<simB, probe>>

StartDay == CanStartDay(simA) /\ simA' = StartDayStep(simA) /\ UNCHANGED <<simB, probe>>

Finish == CanFinish(simA) /\ simA' = FinishStep(simA) /\ UNCHANGED <<simB, probe>>

CreateInstall ==
    /\ CanCreateInstall(simA)
    /\ \E d \in InstallDraws(simA) : simA' = CreateInstallStep(simA, d)
    /\ UNCHANGED <<simB, probe>>

SkipChurned == CanSkipChurned(simA) /\ simA' = SkipChurnedStep(simA) /\ UNCHANGED <<simB, probe>>

ReturnToday ==
    /\ AtAgent(simA)
    /\ \E d \in ReturnDraws(simA) : CanReturnToday(simA, d) /\ simA' = ReturnTodayStep(simA, d)
    /\ UNCHANGED <<simB, probe>>

NotReturn ==
    /\ AtAgent(simA)
    /\ \E d \in NotReturnDraws(simA) : CanNotReturn(simA, d) /\ simA' = NotReturnStep(simA, d)
    /\ UNCHANGED <<simB, probe>>

EndDay == CanEndDay(simA) /\ simA' = EndDayStep(simA) /\ UNCHANGED <<simB, probe>>

SessionStart ==
    /\ CanSessionStart(simA)
    /\ \E d \in SessionStartDraws(simA) : simA' = SessionStartStep(simA, d)
    /\ UNCHANGED <<simB, probe>>

PlayStage ==
    /\ CanLoop(simA, 1)
    /\ \E d \in StageDraws(simA) : simA' = PlayStageStep(simA, d)
    /\ UNCHANGED <<simB, probe>>

UpgradeHero ==
    /\ CanLoop(simA, 2)
    /\ \E d \in UpgradeDraws(simA) : simA' = UpgradeHeroStep(simA, d)
    /\ UNCHANGED <<simB, probe>>

DoGacha ==
    /\ CanLoop(simA, 3)
    /\ \E d \in GachaDraws(simA) : simA' = DoGachaStep(simA, d)
    /\ UNCHANGED <<simB, probe>>

GachaPull ==
    /\ CanGachaPull(simA)
    /\ \E d \in PullDraws(simA) : simA' = GachaPullStep(simA, d)
    /\ UNCHANGED <<simB, probe>>

DoArena ==
    /\ CanLoop(simA, 4)
    /\ \E d \in ArenaDraws(simA) : simA' = DoArenaStep(simA, d)
    /\ UNCHANGED <<simB, probe>>

AttackGuildBoss ==
    /\ CanLoop(simA, 5)
    /\ \E d \in BossDraws(simA) : simA' = AttackGuildBossStep(simA, d)
    /\ UNCHANGED <<simB, probe>>

JoinGuild ==
    /\ CanLoop(simA, 6)
    /\ \E d \in JoinDraws(simA) : simA' = JoinGuildStep(simA, d)
    /\ UNCHANGED <<simB, probe>>

WatchAd ==
    /\ CanLoop(simA, 7)
    /\ \E d \in AdDraws(simA) : simA' = WatchAdStep(simA, d)
    /\ UNCHANGED <<simB, probe>>

BrowseShop ==
    /\ CanLoop(simA, 8)
    /\ \E d \in ShopDraws(simA) : simA' = BrowseShopStep(simA, d)
    /\ UNCHANGED <<simB, probe>>

IdleTick ==
    /\ CanLoop(simA, 9)
    /\ \E d \in IdleDraws(simA) : simA' = IdleTickStep(simA, d)
    /\ UNCHANGED <<simB, probe>>

SessionEnd == CanSessionEnd(simA) /\ simA' = SessionEndStep(simA) /\ UNCHANGED <<simB, probe>>

Snapshot == CanSnapshot(simA) /\ simA' = SnapshotStep(simA) /\ UNCHANGED <<simB, probe>>

Next ==
    \/ Initialize \/ StartDay \/ Finish \/ CreateInstall \/ SkipChurned \/ ReturnToday
    \/ NotReturn \/ EndDay \/ SessionStart \/ PlayStage \/ UpgradeHero \/ DoGacha
    \/ GachaPull \/ DoArena \/ AttackGuildBoss \/ JoinGuild \/ WatchAd \/ BrowseShop
    \/ IdleTick \/ SessionEnd \/ Snapshot

Spec == Init /\ [][Next]_vars

(***************************************************************************)
(* Two runs of the same configuration fed the same draws: simA and simB    *)
(* take every step together and differ in the uuids they generate.         *)
(***************************************************************************)
DetScenarios ==
    {ScenarioGuild,
     [ScenarioPlay EXCEPT !.explore.profiles = {1}],
     [ScenarioChurn EXCEPT !.explore.profiles = {1}, !.explore.plans = {<<0>>}]}

InitDet ==
    \E sc \in DetScenarios :
        /\ simA = Simulator(sc.cfg, sc.explore, "A")
        /\ simB = Simulator(sc.cfg, sc.explore, "B")
        /\ probe = NoProbe

DetInitialize ==
    /\ CanInitialize(simA)
    /\ \E d \in InitializeDraws(simA) : simA' = InitializeStep(simA, d)
           /\ simB' = InitializeStep(simB, d)
    /\ UNCHANGED probe

DetStartDay == CanStartDay(simA) /\ simA' = StartDayStep(simA)
    /\ simB' = StartDayStep(simB) /\ UNCHANGED probe

DetFinish == CanFinish(simA) /\ simA' = FinishStep(simA)
    /\ simB' = FinishStep(simB) /\ UNCHANGED probe

DetCreateInstall ==
    /\ CanCreateInstall(simA)
    /\ \E d \in InstallDraws(simA) : simA' = CreateInstallStep(simA, d)
           /\ simB' = CreateInstallStep(simB, d)
    /\ UNCHANGED probe

DetSkipChurned == CanSkipChurned(simA) /\ simA' = SkipChurnedStep(simA)
    /\ simB' = SkipChurnedStep(simB) /\ UNCHANGED probe

DetReturnToday ==
    /\ AtAgent(simA)
    /\ \E d \in ReturnDraws(simA) : CanReturnToday(simA, d) /\ simA' = ReturnTodayStep(simA, d)
           /\ simB' = ReturnTodayStep(simB, d)
    /\ UNCHANGED probe

DetNotReturn ==
    /\ AtAgent(simA)
    /\ \E d \in NotReturnDraws(simA) : CanNotReturn(simA, d) /\ simA' = NotReturnStep(simA, d)
           /\ simB' = NotReturnStep(simB, d)
    /\ UNCHANGED probe

DetEndDay == CanEndDay(simA) /\ simA' = EndDayStep(simA)
    /\ simB' = EndDayStep(simB) /\ UNCHANGED probe

DetSessionStart ==
    /\ CanSessionStart(simA)
    /\ \E d \in SessionStartDraws(simA) : simA' = SessionStartStep(simA, d)
           /\ simB' = SessionStartStep(simB, d)
    /\ UNCHANGED probe

DetPlayStage ==
    /\ CanLoop(simA, 1)
    /\ \E d \in StageDraws(simA) : simA' = PlayStageStep(simA, d)
           /\ simB' = PlayStageStep(simB, d)
    /\ UNCHANGED probe

DetUpgradeHero ==
    /\ CanLoop(simA, 2)
    /\ \E d \in UpgradeDraws(simA) : simA' = UpgradeHeroStep(simA, d)
           /\ simB' = UpgradeHeroStep(simB, d)
    /\ UNCHANGED probe

DetDoGacha ==
    /\ CanLoop(simA, 3)
    /\ \E d \in GachaDraws(simA) : simA' = DoGachaStep(simA, d) /\ simB' = DoGachaStep(simB, d)
    /\ UNCHANGED probe

DetGachaPull ==
    /\ CanGachaPull(simA)
    /\ \E d \in PullDraws(simA) : simA' = GachaPullStep(simA, d)
           /\ simB' = GachaPullStep(simB, d)
    /\ UNCHANGED probe

DetDoArena ==
    /\ CanLoop(simA, 4)
    /\ \E d \in ArenaDraws(simA) : simA' = DoArenaStep(simA, d) /\ simB' = DoArenaStep(simB, d)
    /\ UNCHANGED probe

DetAttackGuildBoss ==
    /\ CanLoop(simA, 5)
    /\ \E d \in BossDraws(simA) : simA' = AttackGuildBossStep(simA, d)
           /\ simB' = AttackGuildBossStep(simB, d)
    /\ UNCHANGED probe

DetJoinGuild ==
    /\ CanLoop(simA, 6)
    /\ \E d \in JoinDraws(simA) : simA' = JoinGuildStep(simA, d)
           /\ simB' = JoinGuildStep(simB, d)
    /\ UNCHANGED probe

DetWatchAd ==
    /\ CanLoop(simA, 7)
    /\ \E d \in AdDraws(simA) : simA' = WatchAdStep(simA, d) /\ simB' = WatchAdStep(simB, d)
    /\ UNCHANGED probe

DetBrowseShop ==
    /\ CanLoop(simA, 8)
    /\ \E d \in ShopDraws(simA) : simA' = BrowseShopStep(simA, d)
           /\ simB' = BrowseShopStep(simB, d)
    /\ UNCHANGED probe

DetIdleTick ==
    /\ CanLoop(simA, 9)
    /\ \E d \in IdleDraws(simA) : simA' = IdleTickStep(simA, d)
           /\ simB' = IdleTickStep(simB, d)
    /\ UNCHANGED probe

DetSessionEnd == CanSessionEnd(simA) /\ simA' = SessionEndStep(simA)
    /\ simB' = SessionEndStep(simB) /\ UNCHANGED probe

DetSnapshot == CanSnapshot(simA) /\ simA' = SnapshotStep(simA)
    /\ simB' = SnapshotStep(simB) /\ UNCHANGED probe

NextDet ==
    \/ DetInitialize \/ DetStartDay \/ DetFinish \/ DetCreateInstall \/ DetSkipChurned
    \/ DetReturnToday \/ DetNotReturn \/ DetEndDay \/ DetSessionStart \/ DetPlayStage
    \/ DetUpgradeHero \/ DetDoGacha \/ DetGachaPull \/ DetDoArena \/ DetAttackGuildBoss
    \/ DetJoinGuild \/ DetWatchAd \/ DetBrowseShop \/ DetIdleTick \/ DetSessionEnd
    \/ DetSnapshot

SpecDet == InitDet /\ [][NextDet]_vars

(***************************************************************************)
(* get_retention_probability on its own: will_return_today asks it for an  *)
(* agent on each day since its install.  probe.at records the answers for  *)
(* the anchor days.                                                        *)
(***************************************************************************)
AnchorDays == {0, 1, 7, 30, 90}

\* configurations the validator accepts (d1 >= d7 >= d30 >= d90 for every
\* player type): the base one, one with a flat retention curve and a
\* late-game offer that lifts retention, one with a constant curve
RetentionConfigs ==
    {Config,
     [Config EXCEPT !.player_types.whale.retention =
                        [d1 |-> Frac(90, 100), d7 |-> Frac(80, 100),
                         d30 |-> Frac(70, 100), d90 |-> Frac(60, 100)],
                    !.ab_effects.late_game_offer.offer.d30_d60_retention_mult = Frac(12, 10)],
     [Config EXCEPT !.player_types.free_casual.retention =
                        [d1 |-> Frac(50, 100), d7 |-> Frac(50, 100),
                         d30 |-> Frac(50, 100), d90 |-> Frac(50, 100)]]}

\* the A/B assignments of an agent: onboarding_length from its creation,
\* late_game_offer once activated
RetentionTests ==
    {o @@ l : o \in {("onboarding_length" :> v) : v \in {"control", "short", "extended"}},
              l \in {NoTests} \cup {("late_game_offer" :> v) : v \in {"control", "offer"}}}

\* the engagement state of an agent: losses in a row, a recent legendary,
\* a guild, a bot
RetentionFlags ==
    {[losses |-> 0, legendary |-> FALSE, guild |-> 0, bot |-> FALSE],
     [losses |-> 4, legendary |-> FALSE, guild |-> 0, bot |-> FALSE],
     [losses |-> 0, legendary |-> TRUE, guild |-> 1, bot |-> FALSE],
     [losses |-> 4, legendary |-> TRUE, guild |-> 1, bot |-> TRUE]}

RetentionAgents(cfg) ==
    {[AgentState(cfg, 1, t, 1, tests, f.bot) EXCEPT !.consecutive_losses = f.losses,
                                                    !.got_legendary_recently = f.legendary,
                                                    !.guild_id = f.guild] :
        t \in DOMAIN cfg.player_types, tests \in RetentionTests, f \in RetentionFlags}

RetentionProbe(cfg, agent) ==
    [op |-> "retention", cfg |-> cfg, agent |-> agent, day |-> 0,
     prob |-> get_retention_probability(cfg, agent, 0),
     at |-> (0 :> get_retention_probability(cfg, agent, 0))]

\* the probability asked for the next day
RetentionAsked(q) ==
    LET day == q.day + 1
        prob == get_retention_probability(q.cfg, q.agent, day)
    IN  [q EXCEPT !.day = day, !.prob = prob,
                  !.at = IF day \in AnchorDays THEN (day :> prob) @@ @ ELSE @]

\* a Simulator that is not run
Idle(salt) == Simulator(Config, ScenarioGuild.explore, salt)

InitRetention ==
    /\ simA = Idle("A") /\ simB = Idle("B")
    /\ \E cfg \in RetentionConfigs : \E agent \in RetentionAgents(cfg) :
           probe = RetentionProbe(cfg, agent)

AskRetention ==
    /\ probe.op = "retention" /\ probe.day < MaxRetentionDay
    /\ probe' = RetentionAsked(probe)
    /\ UNCHANGED <<simA, simB>>

SpecRetention == InitRetention /\ [][AskRetention]_vars

(***************************************************************************)
(* roll_gacha on its own: an agent rolls again and again, its pity counter *)
(* following the rolls as in _do_gacha.  probe.rates_obj is the object     *)
(* config.gacha_rates, probe.last the last roll.                           *)
(***************************************************************************)
\* rolls of one agent
MaxRolls == 6

NoRoll == [pity_before |-> -1]

\* gacha sections whose rates sum to 1.0 and whose soft pity starts below
\* the threshold: the base one, one whose boost reaches the cap of 1.0, one
\* with a long soft pity, one without legendaries
GachaConfigs ==
    {Config,
     [Config EXCEPT !.pity_threshold = MaxPity, !.soft_pity_start = 1,
                    !.soft_pity_rate_boost = Frac(1, 2)],
     [Config EXCEPT !.pity_threshold = MaxPity, !.soft_pity_start = 3,
                    !.soft_pity_rate_boost = Frac(5, 100),
                    !.gacha_rates = [legendary |-> Frac(1, 100), epic |-> Frac(9, 100),
                                     rare |-> Frac(30, 100), common |-> Frac(60, 100)]],
     [Config EXCEPT !.gacha_rates = [legendary |-> Frac(0, 1), epic |-> Frac(0, 1),
                                     rare |-> Frac(0, 1), common |-> One]]}

GachaProbe(cfg) ==
    [op |-> "roll_gacha", cfg |-> cfg, rates_obj |-> cfg.gacha_rates, pity |-> 0,
     rolls |-> 0, last |-> NoRoll]

\* one roll with the draw value, and the pity update that follows it
GachaRolled(q, value) ==
    LET r == roll_gacha(q.cfg, q.rates_obj, q.pity, value)
    IN  [q EXCEPT !.rates_obj = r.config_rates,
                  !.pity = pity_after(r.rarity, q.pity),
                  !.rolls = @ + 1,
                  !.last = [pity_before |-> q.pity, value |-> value, rarity |-> r.rarity,
                            rates |-> r.rates, hard |-> r.hard]]

InitGacha ==
    /\ simA = Idle("A") /\ simB = Idle("B")
    /\ \E cfg \in GachaConfigs : probe = GachaProbe(cfg)

RollGacha ==
    /\ probe.op = "roll_gacha" /\ probe.rolls < MaxRolls
    /\ \E value \in Draws : probe' = GachaRolled(probe, value)
    /\ UNCHANGED <<simA, simB>>

SpecGacha == InitGacha /\ [][RollGacha]_vars

(***************************************************************************)
(* ConfigValidator (src/src/validators.py).  The configuration is the raw  *)
(* dictionary: a function from its keys, a missing key being outside the   *)
(* domain.  Shares, rates and weights are in thousandths, retention        *)
(* anchors in hundredths.  An error is a record of the path its message    *)
(* names and the kind of the message.  A value whose type the validator    *)
(* tests is a record of the type and the value: [int |-> 42].              *)
(***************************************************************************)
EmptyDict == [k \in {} |-> 0]

\* d.get(key, default)
Get(d, key, default) == IF key \in DOMAIN d THEN d[key] ELSE default

\* the keys of a dictionary in the order its items are visited
RECURSIVE KeysOf(_)
KeysOf(keys) ==
    IF keys = {} THEN <<>>
    ELSE LET k == CHOOSE x \in keys : TRUE IN <<k>> \o KeysOf(keys \ {k})

\* sum(d.values())
RECURSIVE SumValues(_, _)
SumValues(d, keys) ==
    IF keys = {} THEN 0
    ELSE LET k == CHOOSE x \in keys : TRUE IN d[k] + SumValues(d, keys \ {k})

\* abs(total - 1.0) > 0.01
OffOne(total) == total - 1000 > 10 \/ 1000 - total > 10

Error(path, kind) == [path |-> path, kind |-> kind]

\* ConfigValidator(config)
ConfigValidator(config) == [config |-> config, errors |-> <<>>]

Append_errors(v, error) == [v EXCEPT !.errors = Append(@, error)]

required_sections ==
    <<"simulation", "installs", "player_types", "economy", "gacha", "shop", "vip",
      "progression", "heroes", "social", "output", "devices">>

RECURSIVE required_loop(_, _)
required_loop(v, i) ==
    IF i > Len(required_sections) THEN v
    ELSE required_loop(IF required_sections[i] \notin DOMAIN v.config
                       THEN Append_errors(v, Error(<<required_sections[i]>>, "missing section"))
                       ELSE v, i + 1)

_validate_required_sections(v) == required_loop(v, 1)

_validate_simulation_params(v) ==
    LET sim == Get(v.config, "simulation", EmptyDict)
        v1 == IF "seed" \notin DOMAIN sim
              THEN Append_errors(v, Error(<<"simulation", "seed">>, "required"))
              ELSE IF "int" \notin DOMAIN sim.seed
              THEN Append_errors(v, Error(<<"simulation", "seed">>, "must be an integer"))
              ELSE v
        v2 == IF "start_date" \notin DOMAIN sim
              THEN Append_errors(v1, Error(<<"simulation", "start_date">>, "required"))
              ELSE v1
    IN  IF "duration_days" \notin DOMAIN sim
        THEN Append_errors(v2, Error(<<"simulation", "duration_days">>, "required"))
        ELSE IF sim.duration_days < 1
        THEN Append_errors(v2, Error(<<"simulation", "duration_days">>, "must be positive"))
        ELSE IF sim.duration_days > 365
        THEN Append_errors(v2, Error(<<"simulation", "duration_days">>, "must be <= 365"))
        ELSE v2

\* the total _validate_share_sum adds up: the share of an entry that has
\* one, nothing for an entry without
RECURSIVE share_total(_, _)
share_total(data, keys) ==
    IF keys = {} THEN 0
    ELSE LET k == CHOOSE x \in keys : TRUE
         IN  (IF "share" \in DOMAIN data[k] THEN data[k].share ELSE 0)
             + share_total(data, keys \ {k})

_validate_share_sum(v, data, path) ==
    IF OffOne(share_total(data, DOMAIN data))
    THEN Append_errors(v, Error(path, "shares sum"))
    ELSE v

_validate_player_type_shares(v) ==
    _validate_share_sum(v, Get(v.config, "player_types", EmptyDict), <<"player_types">>)

_validate_install_source_shares(v) ==
    _validate_share_sum(v, Get(Get(v.config, "installs", EmptyDict), "sources", EmptyDict),
                        <<"installs", "sources">>)

\* the three checks of a plain dictionary of shares: skipped when the
\* dictionary is empty
validate_plain_sum(v, values, path) ==
    IF DOMAIN values # {} /\ OffOne(SumValues(values, DOMAIN values))
    THEN Append_errors(v, Error(path, "shares sum"))
    ELSE v

_validate_platform_shares(v) ==
    validate_plain_sum(v, Get(Get(v.config, "devices", EmptyDict), "platforms", EmptyDict),
                       <<"devices", "platforms">>)

_validate_country_shares(v) ==
    validate_plain_sum(v, Get(Get(v.config, "devices", EmptyDict), "countries", EmptyDict),
                       <<"devices", "countries">>)

_validate_gacha_rates(v) ==
    validate_plain_sum(v, Get(Get(v.config, "gacha", EmptyDict), "rates", EmptyDict),
                       <<"gacha", "rates">>)

RECURSIVE range_loop(_, _, _, _)
range_loop(v, name, values, i) ==
    IF i > Len(values) THEN v
    ELSE range_loop(IF ~(0 <= values[i][2] /\ values[i][2] <= 100)
                    THEN Append_errors(v, Error(<<"player_type", name, "retention", values[i][1]>>,
                                                "must be between 0 and 1"))
                    ELSE v, name, values, i + 1)

RECURSIVE retention_loop(_, _, _)
retention_loop(v, types, names) ==
    IF names = <<>> THEN v
    ELSE LET name == Head(names)
             ret == Get(types[name], "retention", EmptyDict)
             d1 == Get(ret, "d1", 100)
             d7 == Get(ret, "d7", 0)
             d30 == Get(ret, "d30", 0)
             d90 == Get(ret, "d90", 0)
             v1 == IF ~(d1 >= d7 /\ d7 >= d30 /\ d30 >= d90)
                   THEN Append_errors(v, Error(<<"player_type", name>>, "retention order"))
                   ELSE v
         IN  retention_loop(range_loop(v1, name, <<<<"d1", d1>>, <<"d7", d7>>,
                                                   <<"d30", d30>>, <<"d90", d90>>>>, 1),
                            types, Tail(names))

_validate_retention_order(v) ==
    LET types == Get(v.config, "player_types", EmptyDict)
    IN  retention_loop(v, types, KeysOf(DOMAIN types))

RECURSIVE ab_loop(_, _, _)
ab_loop(v, tests, names) ==
    IF names = <<>> THEN v
    ELSE LET test_name == Head(names)
             test_config == tests[test_name]
             variants == Get(test_config, "variants", <<>>)
             weights == Get(test_config, "weights", <<>>)
             v1 == IF ~Get(test_config, "enabled", FALSE) THEN v
                   ELSE IF Len(variants) # Len(weights)
                   THEN Append_errors(v, Error(<<"ab_tests", test_name>>, "same length"))
                   ELSE IF OffOne(SumSeq(weights))
                   THEN Append_errors(v, Error(<<"ab_tests", test_name>>, "weights sum"))
                   ELSE v
         IN  ab_loop(v1, tests, Tail(names))

_validate_ab_test_weights(v) ==
    LET tests == Get(v.config, "ab_tests", EmptyDict)
    IN  ab_loop(v, tests, KeysOf(DOMAIN tests))

RECURSIVE unlock_loop(_, _, _, _)
unlock_loop(v, unlocks, max_level, features) ==
    IF features = <<>> THEN v
    ELSE unlock_loop(IF unlocks[Head(features)] > max_level
                     THEN Append_errors(v, Error(<<"progression", "unlocks", Head(features)>>,
                                                 "> player_level.max"))
                     ELSE v, unlocks, max_level, Tail(features))

_validate_references(v) ==
    LET progression == Get(v.config, "progression", EmptyDict)
        unlocks == Get(progression, "unlocks", EmptyDict)
        max_level == Get(Get(progression, "player_level", EmptyDict), "max", 100)
    IN  unlock_loop(v, unlocks, max_level, KeysOf(DOMAIN unlocks))

\* vip.levels is the sequence of the levels in the order of their numbers
RECURSIVE vip_loop(_, _, _, _)
vip_loop(v, vip_levels, i, prev_threshold) ==
    IF i > Len(vip_levels) THEN v
    ELSE LET threshold == Get(vip_levels[i], "threshold", 0)
         IN  vip_loop(IF threshold < prev_threshold
                      THEN Append_errors(v, Error(<<"vip", "levels", ToString(i), "threshold">>,
                                                  "must be >= previous level"))
                      ELSE v, vip_levels, i + 1, threshold)

_validate_numeric_ranges(v) ==
    LET installs == Get(v.config, "installs", EmptyDict)
        v1 == IF "total" \in DOMAIN installs /\ installs.total < 100
              THEN Append_errors(v, Error(<<"installs", "total">>, "at least 100"))
              ELSE v
        v2 == IF "total" \in DOMAIN installs /\ installs.total > 10000000
              THEN Append_errors(v1, Error(<<"installs", "total">>, "at most 10,000,000"))
              ELSE v1
        pity == Get(Get(v.config, "gacha", EmptyDict), "pity", EmptyDict)
        v3 == IF DOMAIN pity # {} /\ Get(pity, "soft_pity_start", 75) >= Get(pity, "threshold", 90)
              THEN Append_errors(v2, Error(<<"gacha", "pity", "soft_pity_start">>,
                                           "must be < threshold"))
              ELSE v2
    IN  vip_loop(v3, Get(Get(v.config, "vip", EmptyDict), "levels", <<>>), 1, -1)

\* a validate that does not clear the errors of the call before
validate_keeping_errors(v) ==
    _validate_numeric_ranges(_validate_references(_validate_ab_test_weights(
    _validate_gacha_rates(_validate_country_shares(_validate_platform_shares(
    _validate_retention_order(_validate_install_source_shares(
    _validate_player_type_shares(_validate_simulation_params(
    _validate_required_sections(v)))))))))))

\* ConfigValidator.validate: the validator afterwards, its errors the list
\* returned
validate(v) ==
    _validate_numeric_ranges(_validate_references(_validate_ab_test_weights(
    _validate_gacha_rates(_validate_country_shares(_validate_platform_shares(
    _validate_retention_order(_validate_install_source_shares(
    _validate_player_type_shares(_validate_simulation_params(
    _validate_required_sections([v EXCEPT !.errors = <<>>])))))))))))

\* validate_config
validate_config(config) == validate(ConfigValidator(config)).errors

(***************************************************************************)
(* The configurations validated: a valid one, and the valid one with some  *)
(* of its entries replaced.                                                *)
(***************************************************************************)
ValidRaw ==
    [simulation |-> [seed |-> [int |-> 42], start_date |-> "2024-01-01", duration_days |-> 30],
     installs |-> [total |-> 1000, distribution |-> "uniform",
                   sources |-> [organic |-> [share |-> 600], paid |-> [share |-> 400]]],
     player_types |->
        [whale |-> [share |-> 300,
                    retention |-> [d1 |-> 60, d7 |-> 40, d30 |-> 20, d90 |-> 10]],
         free_casual |-> [share |-> 700,
                          retention |-> [d1 |-> 40, d7 |-> 20, d30 |-> 10, d90 |-> 5]]],
     economy |-> EmptyDict,
     gacha |-> [rates |-> [legendary |-> 20, epic |-> 80, rare |-> 300, common |-> 600],
                pity |-> [threshold |-> 90, soft_pity_start |-> 75]],
     shop |-> EmptyDict,
     vip |-> [levels |-> <<[threshold |-> 0], [threshold |-> 10], [threshold |-> 50]>>],
     progression |-> [unlocks |-> [arena |-> 10, guild |-> 15],
                      player_level |-> [max |-> 100]],
     heroes |-> EmptyDict,
     social |-> EmptyDict,
     output |-> [format |-> "jsonl", compression |-> "none", batch_size |-> 1000,
                 include_metadata |-> TRUE],
     devices |-> [platforms |-> [ios |-> 450, android |-> 550],
                  countries |-> [US |-> 500, DE |-> 300, JP |-> 200]],
     ab_tests |->
        [onboarding_length |-> [enabled |-> TRUE,
                                variants |-> <<"control", "short", "extended">>,
                                weights |-> <<340, 330, 330>>],
         energy_regen_rate |-> [enabled |-> FALSE, variants |-> <<"control", "fast">>,
                                weights |-> <<500, 500>>]]]

\* the dictionary without a key
Without(d, key) == [k \in DOMAIN d \ {key} |-> d[k]]

\* d[key] = value
Put(d, key, value) == [k \in DOMAIN d \cup {key} |-> IF k = key THEN value ELSE d[k]]

\* the replacements, each with the entry it replaces
Faults ==
    {[name |-> "player_types", entry |-> "player_types"],
     [name |-> "player_types_empty", entry |-> "player_types"],
     [name |-> "sources", entry |-> "installs.sources"],
     [name |-> "platforms", entry |-> "devices.platforms"],
     [name |-> "platforms_tolerated", entry |-> "devices.platforms"],
     [name |-> "platforms_empty", entry |-> "devices.platforms"],
     [name |-> "countries", entry |-> "devices.countries"],
     [name |-> "countries_empty", entry |-> "devices.countries"],
     [name |-> "rates", entry |-> "gacha.rates"],
     [name |-> "rates_empty", entry |-> "gacha.rates"],
     [name |-> "weights", entry |-> "ab_tests.onboarding_length"],
     [name |-> "weights_length", entry |-> "ab_tests.onboarding_length"],
     [name |-> "weights_disabled", entry |-> "ab_tests.energy_regen_rate"],
     [name |-> "retention", entry |-> "player_types"],
     [name |-> "seed_missing", entry |-> "simulation.seed"],
     [name |-> "seed_string", entry |-> "simulation.seed"],
     [name |-> "duration_zero", entry |-> "simulation.duration_days"],
     [name |-> "duration_long", entry |-> "simulation.duration_days"],
     [name |-> "no_shop", entry |-> "shop"],
     [name |-> "unlock", entry |-> "progression.unlocks"],
     [name |-> "installs_few", entry |-> "installs.total"],
     [name |-> "soft_pity", entry |-> "gacha.pity"],
     [name |-> "vip", entry |-> "vip.levels"]}

WithFault(raw, name) ==
    IF name = "player_types" THEN [raw EXCEPT !.player_types.whale.share = 100]
    ELSE IF name = "player_types_empty" THEN [raw EXCEPT !.player_types = EmptyDict]
    ELSE IF name = "sources" THEN [raw EXCEPT !.installs.sources.paid.share = 411]
    ELSE IF name = "platforms" THEN [raw EXCEPT !.devices.platforms.ios = 439]
    ELSE IF name = "platforms_tolerated" THEN [raw EXCEPT !.devices.platforms.ios = 455]
    ELSE IF name = "platforms_empty" THEN [raw EXCEPT !.devices.platforms = EmptyDict]
    ELSE IF name = "countries" THEN [raw EXCEPT !.devices.countries.JP = 400]
    ELSE IF name = "countries_empty" THEN [raw EXCEPT !.devices.countries = EmptyDict]
    ELSE IF name = "rates" THEN [raw EXCEPT !.gacha.rates.legendary = 120]
    ELSE IF name = "rates_empty" THEN [raw EXCEPT !.gacha.rates = EmptyDict]
    ELSE IF name = "weights"
    THEN [raw EXCEPT !.ab_tests.onboarding_length.weights = <<340, 330, 300>>]
    ELSE IF name = "weights_length"
    THEN [raw EXCEPT !.ab_tests.onboarding_length.weights = <<500, 200>>]
    ELSE IF name = "weights_disabled"
    THEN [raw EXCEPT !.ab_tests.energy_regen_rate.weights = <<500, 200>>]
    ELSE IF name = "retention" THEN [raw EXCEPT !.player_types.whale.retention.d7 = 70]
    ELSE IF name = "seed_missing"
    THEN [raw EXCEPT !.simulation = Without(raw.simulation, "seed")]
    ELSE IF name = "seed_string" THEN [raw EXCEPT !.simulation.seed = [str |-> "42"]]
    ELSE IF name = "duration_zero" THEN [raw EXCEPT !.simulation.duration_days = 0]
    ELSE IF name = "duration_long" THEN [raw EXCEPT !.simulation.duration_days = 366]
    ELSE IF name = "no_shop" THEN Without(raw, "shop")
    ELSE IF name = "unlock" THEN [raw EXCEPT !.progression.unlocks.guild = 101]
    ELSE IF name = "installs_few" THEN [raw EXCEPT !.installs.total = 50]
    ELSE IF name = "soft_pity" THEN [raw EXCEPT !.gacha.pity.soft_pity_start = 90]
    ELSE IF name = "vip" THEN [raw EXCEPT !.vip.levels[3].threshold = 5]
    ELSE raw

RECURSIVE WithFaults(_, _)
WithFaults(raw, names) ==
    IF names = {} THEN raw
    ELSE LET name == CHOOSE x \in names : TRUE
         IN  WithFaults(WithFault(raw, name), names \ {name})

\* the sets of at most MaxFaults replacements of different entries
MaxFaults == 2

FaultSets ==
    {F \in SUBSET Faults :
        /\ Cardinality(F) <= MaxFaults
        /\ \A f, g \in F : f.entry = g.entry => f = g}

Names(F) == {f.name : f \in F}

(***************************************************************************)
(* A ConfigValidator called again and again (probe.op = "validator"), and  *)
(* the command main of src/src/cli.py (probe.op = "cli"): pc is the place  *)
(* main has reached, run_dir, output_manager and simulator tell whether    *)
(* the run directory, the OutputManager and the Simulator were created.    *)
(***************************************************************************)
MaxCalls == 2

ValidatorProbe(F) ==
    [op |-> "validator", faults |-> F, v |-> ConfigValidator(WithFaults(ValidRaw, Names(F))),
     calls |-> 0, returned |-> <<>>]

CalledValidate(q) ==
    LET v == validate(q.v)
    IN  [q EXCEPT !.v = v, !.calls = @ + 1, !.returned = Append(@, v.errors)]

CliOptions ==
    {[seed |-> s, format |-> f, validate_only |-> vo, dry_run |-> d] :
        s \in {<<>>, <<7>>}, f \in {<<>>, <<"parquet">>}, vo \in BOOLEAN, d \in BOOLEAN}

CliProbe(F, options) ==
    [op |-> "cli", faults |-> F, options |-> options,
     config_dict |-> WithFaults(ValidRaw, Names(F)), pc |-> "load", errors |-> <<>>,
     run_dir |-> FALSE, output_manager |-> FALSE, simulator |-> FALSE, exit_code |-> -1]

\* main up to the validation: the overrides of the seed and of the format,
\* an option not given being the empty tuple
CliLoaded(q) ==
    LET c1 == IF q.options.seed # <<>>
              THEN [q.config_dict EXCEPT
                       !.simulation = Put(@, "seed", [int |-> q.options.seed[1]])]
              ELSE q.config_dict
        c2 == IF q.options.format # <<>>
              THEN [c1 EXCEPT !.output = Put(@, "format", q.options.format[1])]
              ELSE c1
    IN  [q EXCEPT !.config_dict = c2, !.pc = "validate"]

\* validate_config and the exit on errors
CliValidated(q) ==
    LET errors == validate_config(q.config_dict)
    IN  IF errors # <<>> THEN [q EXCEPT !.errors = errors, !.pc = "exit", !.exit_code = 1]
        ELSE IF q.options.validate_only THEN [q EXCEPT !.pc = "exit", !.exit_code = 0]
        ELSE [q EXCEPT !.pc = "summary"]

\* print_config_summary and the exit of a dry run
CliSummarized(q) ==
    IF q.options.dry_run THEN [q EXCEPT !.pc = "exit", !.exit_code = 0]
    ELSE [q EXCEPT !.pc = "mkdir"]

\* run_dir.mkdir
CliRunDirMade(q) == [q EXCEPT !.run_dir = TRUE, !.pc = "output"]

\* OutputManager(...)
CliOutputOpened(q) == [q EXCEPT !.output_manager = TRUE, !.pc = "simulate"]

\* Simulator(...).run() and the rest of main
CliSimulated(q) == [q EXCEPT !.simulator = TRUE, !.pc = "done"]

InitValidate ==
    /\ simA = Idle("A") /\ simB = Idle("B")
    /\ \E F \in FaultSets :
          \/ probe = ValidatorProbe(F)
          \/ \E options \in CliOptions : probe = CliProbe(F, options)

CallValidate ==
    /\ probe.op = "validator" /\ probe.calls < MaxCalls
    /\ probe' = CalledValidate(probe)
    /\ UNCHANGED <<simA, simB>>

CliLoad ==
    /\ probe.op = "cli" /\ probe.pc = "load"
    /\ probe' = CliLoaded(probe)
    /\ UNCHANGED <<simA, simB>>

CliValidate ==
    /\ probe.op = "cli" /\ probe.pc = "validate"
    /\ probe' = CliValidated(probe)
    /\ UNCHANGED <<simA, simB>>

CliSummary ==
    /\ probe.op = "cli" /\ probe.pc = "summary"
    /\ probe' = CliSummarized(probe)
    /\ UNCHANGED <<simA, simB>>

CliMakeRunDir ==
    /\ probe.op = "cli" /\ probe.pc = "mkdir"
    /\ probe' = CliRunDirMade(probe)
    /\ UNCHANGED <<simA, simB>>

CliOpenOutput ==
    /\ probe.op = "cli" /\ probe.pc = "output"
    /\ probe' = CliOutputOpened(probe)
    /\ UNCHANGED <<simA, simB>>

CliSimulate ==
    /\ probe.op = "cli" /\ probe.pc = "simulate"
    /\ probe' = CliSimulated(probe)
    /\ UNCHANGED <<simA, simB>>

NextValidate ==
    \/ CallValidate \/ CliLoad \/ CliValidate \/ CliSummary
    \/ CliMakeRunDir \/ CliOpenOutput \/ CliSimulate

SpecValidate == InitValidate /\ [][NextValidate]_vars

(***************************************************************************)
(* Exp gains on their own: an agent at some level gains exp, as            *)
(* _play_stage and _claim_idle_rewards add it, and _check_level_up runs.   *)
(* progression.player_level of the configuration gives max, which          *)
(* ConfigValidator reads, and the base and the multiplier of the exp a     *)
(* level requires.                                                         *)
(***************************************************************************)
MaxGains == 2

\* the configured maximum levels, the levels an agent starts from and the
\* exp of one gain
LevelMaxima == {3, 100}

StartLevels == {1, 2, 3, 98, 99, 100}

ExpGains == {4, 10, 25, 70}

LevelConfigs ==
    {[Config EXCEPT !.player_level_max = max, !.exp_per_level_mult = mult,
                    !.feature_unlocks = [arena |-> 1, guild |-> 2, daily_quests |-> 2,
                                         idle_rewards |-> 2, hero_awakening |-> 3]] :
        max \in LevelMaxima, mult \in {One, Frac(2, 1)}}

LevelProbe(cfg, level) ==
    [op |-> "level_up", cfg |-> cfg, gains |-> 0,
     before |-> [player_level |-> level, player_exp |-> 0],
     h |-> [a |-> [AgentState(cfg, 1, "free_casual", 1, NoTests, FALSE)
                      EXCEPT !.player_level = level],
            ev |-> <<>>, day |-> 1, salt |-> "A", n |-> 0, t |-> 0, guilds |-> <<>>]]

\* agent.player_exp += exp; self._check_level_up(agent, timestamp)
GainedExp(q, exp) ==
    [q EXCEPT !.gains = @ + 1,
              !.before = [player_level |-> q.h.a.player_level,
                          player_exp |-> q.h.a.player_exp + exp],
              !.h = _check_level_up(q.cfg,
                       [q.h EXCEPT !.a.player_exp = @ + exp, !.ev = <<>>,
                                   !.n = @ + Len(q.h.ev)],
                       q.h.t)]

InitLevelUp ==
    /\ simA = Idle("A") /\ simB = Idle("B")
    /\ \E cfg \in LevelConfigs : \E level \in StartLevels :
          /\ level <= cfg.player_level_max
          /\ (level <= 3 \/ cfg.exp_per_level_mult = One)
          /\ probe = LevelProbe(cfg, level)

GainExp ==
    /\ probe.op = "level_up" /\ probe.gains < MaxGains
    /\ \E exp \in ExpGains : probe' = GainedExp(probe, exp)
    /\ UNCHANGED <<simA, simB>>

SpecLevelUp == InitLevelUp /\ [][GainExp]_vars

(***************************************************************************)
(* generate_user_id and generate_device_id: f"u_{index:06d}" and           *)
(* f"d_{index:06d}".  An id is its prefix and the decimal digits that      *)
(* follow it; the engine above carries the index of an id in its place.    *)
(* AgentFactory on its own: create_agent called MaxCreated times on a      *)
(* factory that has created some number of agents before.                  *)
(***************************************************************************)
MaxCreated == 3

RECURSIVE Digits(_)
Digits(n) == IF n < 10 THEN <<n>> ELSE Append(Digits(n \div 10), n % 10)

\* the format 06d: the decimal digits, filled with zeros on the left up to
\* a width of 6
RECURSIVE ZeroFill(_, _)
ZeroFill(digits, width) ==
    IF Len(digits) >= width THEN digits ELSE ZeroFill(<<0>> \o digits, width)

Format06d(index) == ZeroFill(Digits(index), 6)

\* an id without the zeros
generate_user_id_unpadded(index) == [prefix |-> "u_", digits |-> Digits(index)]

generate_user_id(index) == [prefix |-> "u_", digits |-> Format06d(index)]

generate_device_id(index) == [prefix |-> "d_", digits |-> Format06d(index)]

\* the numbers of agents a factory has created before
FactoryStarts == {0, 8, 98, 999997}

InstallSources == {"organic", "fake_network"}

AgentFactory(start) ==
    [op |-> "factory", agent_counter |-> start, start |-> start, agents |-> <<>>]

\* create_agent, the agent being kept with its ids as strings
CreatedAgent(q, install_source, type_value, fresh, is_bot) ==
    LET agent == create_agent(Config, <<>>, q.agent_counter, 1, type_value, fresh, is_bot)
    IN  [q EXCEPT !.agent_counter = @ + 1,
                  !.agents = Append(@, [user_id |-> generate_user_id(agent.user_id),
                                        device_id |-> generate_device_id(agent.device_id),
                                        agent_type |-> agent.agent_type,
                                        ab_tests |-> agent.ab_tests,
                                        install_source |-> install_source,
                                        is_bot |-> is_bot])]

InitFactory ==
    /\ simA = Idle("A") /\ simB = Idle("B")
    /\ \E start \in FactoryStarts : probe = AgentFactory(start)

CreateAgent ==
    /\ probe.op = "factory" /\ Len(probe.agents) < MaxCreated
    /\ \E install_source \in InstallSources, type_value \in {0, 99},
          fresh \in {0, 9999}, is_bot \in BOOLEAN :
          probe' = CreatedAgent(probe, install_source, type_value, fresh, is_bot)
    /\ UNCHANGED <<simA, simB>>

SpecFactory == InitFactory /\ [][CreateAgent]_vars

(***************************************************************************)
(* The guild handlers on their own: the agent loop of _simulate_day over   *)
(* agents that take the guild actions of their sessions.  The first        *)
(* q.prefix agents have joined guild 1 and attacked its boss on the first  *)
(* day before the agents explored; on later days only the agents explored  *)
(* return.  calls counts the handler calls explored, day_calls the handler *)
(* calls of the current day.                                               *)
(***************************************************************************)
MaxGuildAgents == 3

MaxGuildDays == 2

MaxGuildCalls == 4

GuildPrefixes == {0, 8, 9}

GuildConfig == [Config EXCEPT !.guild_count = 2, !.guild_max_members = 10]

\* the team power of agent i: the last agent has a weak team
GuildAgent(cfg, i, last) ==
    [AgentState(cfg, i, "free_casual", 1, NoTests, FALSE)
        EXCEPT !.team_power = IF i = last THEN 250 ELSE 12500, !.player_level = 2]

GuildH(q) ==
    [a |-> q.agents[q.cur], ev |-> <<>>, day |-> q.day, salt |-> "A", n |-> q.created,
     t |-> 0, guilds |-> q.guilds]

GuildCommit(q, h) ==
    [q EXCEPT !.agents[q.cur] = h.a, !.guilds = h.guilds, !.emitted = h.ev,
              !.created = @ + Len(h.ev), !.calls = @ + 1, !.day_calls = @ + 1]

GuildJoined(q, d) == GuildCommit(q, _join_guild(q.cfg, GuildH(q), 0, d))

GuildAttacked(q, d) == GuildCommit(q, _attack_guild_boss(q.cfg, GuildH(q), 0, d))

\* the next agent of the loop starts its day
GuildTurn(q, i) ==
    IF i \in 1..Len(q.agents)
    THEN [q EXCEPT !.cur = i, !.agents[i] = reset_daily_state(q.agents[i]), !.emitted = <<>>]
    ELSE [q EXCEPT !.cur = i, !.emitted = <<>>]

\* run(): world.advance_day() after the day, and the next day
GuildDayEnded(q) ==
    GuildTurn([q EXCEPT !.guilds = advance_day(q.guilds), !.day = @ + 1, !.day_calls = 0],
              q.prefix + 1)

RECURSIVE GuildPrefix(_, _)
GuildPrefix(q, k) ==
    IF k = 0 THEN q
    ELSE GuildAttacked(GuildJoined(GuildTurn(GuildPrefix(q, k - 1), k),
                                   [guild |-> 1, duration |-> 30]),
                       [uniform |-> Frac(6, 5), duration |-> 60])

GuildProbe(cfg, prefix) ==
    LET n == prefix + MaxGuildAgents
        q == [op |-> "guilds", cfg |-> cfg, prefix |-> prefix, day |-> 1, cur |-> 0,
              agents |-> [i \in 1..n |-> GuildAgent(cfg, i, n)],
              guilds |-> NewGuilds(cfg), emitted |-> <<>>, created |-> 0,
              calls |-> 0, day_calls |-> 0]
    IN  [GuildTurn(GuildPrefix(q, prefix), prefix + 1) EXCEPT !.calls = 0]

GuildRunning(q) ==
    /\ q.op = "guilds" /\ q.day <= MaxGuildDays

GuildCanCall(q) ==
    /\ GuildRunning(q) /\ q.cur \in 1..Len(q.agents) /\ q.calls < MaxGuildCalls

InitGuilds ==
    /\ simA = Idle("A") /\ simB = Idle("B")
    /\ \E prefix \in GuildPrefixes : probe = GuildProbe(GuildConfig, prefix)

GuildJoin ==
    /\ GuildCanCall(probe)
    /\ \E g \in IF available_guilds(probe.guilds) = {} THEN {0}
                ELSE available_guilds(probe.guilds) :
          probe' = GuildJoined(probe, [guild |-> g, duration |-> 30])
    /\ UNCHANGED <<simA, simB>>

GuildAttack ==
    /\ GuildCanCall(probe)
    /\ \E u \in {Frac(4, 5), Frac(6, 5)} :
          probe' = GuildAttacked(probe, [uniform |-> u, duration |-> 60])
    /\ UNCHANGED <<simA, simB>>

GuildNextAgent ==
    /\ GuildRunning(probe) /\ probe.cur \in 1..Len(probe.agents)
    /\ probe' = GuildTurn(probe, probe.cur + 1)
    /\ UNCHANGED <<simA, simB>>

GuildEndDay ==
    /\ GuildRunning(probe) /\ probe.cur > Len(probe.agents)
    /\ probe' = GuildDayEnded(probe)
    /\ UNCHANGED <<simA, simB>>

NextGuilds == GuildJoin \/ GuildAttack \/ GuildNextAgent \/ GuildEndDay

SpecGuilds == InitGuilds /\ [][NextGuilds]_vars

(***************************************************************************)
(* WorldState._generate_banners on its own, for runs of 1 to MaxBannerDays *)
(* days, and GachaBanner.is_active asked for the dates of the run in turn. *)
(***************************************************************************)
MaxBannerDays == 32

FeaturedDraws(cfg) ==
    LET legendary_heroes == get_heroes_by_rarity(cfg, "legendary")
    IN  {<<legendary_heroes[1]>>,
         <<legendary_heroes[Len(legendary_heroes)], legendary_heroes[1]>>}

BannerProbe(duration_days, featured) ==
    [op |-> "banners", duration_days |-> duration_days, featured |-> featured,
     generated |-> FALSE, banners |-> <<>>, current_date |-> 0, active |-> {}]

BannersGenerated(q) ==
    [q EXCEPT !.generated = TRUE, !.banners = _generate_banners(q.duration_days, q.featured)]

\* the banners that are active on the next date of the run
BannersAsked(q) ==
    [q EXCEPT !.current_date = @ + 1,
              !.active = {i \in 1..Len(q.banners) : is_active(q.banners[i], q.current_date + 1)}]

InitBanners ==
    /\ simA = Idle("A") /\ simB = Idle("B")
    /\ \E duration_days \in 1..MaxBannerDays, featured \in FeaturedDraws(Config) :
          probe = BannerProbe(duration_days, featured)

GenerateBanners ==
    /\ probe.op = "banners" /\ ~probe.generated
    /\ probe' = BannersGenerated(probe)
    /\ UNCHANGED <<simA, simB>>

AskBanners ==
    /\ probe.op = "banners" /\ probe.generated /\ probe.current_date < probe.duration_days
    /\ probe' = BannersAsked(probe)
    /\ UNCHANGED <<simA, simB>>

SpecBanners == InitBanners /\ [][GenerateBanners \/ AskBanners]_vars

(***************************************************************************)
(* The action handlers of the main loop called on their own, on agents     *)
(* with and without the resources they need.                               *)
(***************************************************************************)
MaxHandlerCalls == 2

Handlers ==
    {"play_stage", "upgrade_hero", "do_gacha", "do_arena", "attack_guild_boss",
     "watch_ad", "join_guild"}

\* the agents the handlers start from
HandlerStarts ==
    [energy : {0, Config.stage_energy_cost}, gold : {0, Config.initial_gold},
     gems : {0, Config.gacha_single_cost}, summon_tickets : {0, 1},
     hero_level : {1, 100}, arena_attempts_today : {0, 1},
     guild_id : {0, 1}, attacked_guild_boss_today : BOOLEAN,
     ads_watched_today : {0, Config.max_ads_per_day}, guilds_full : BOOLEAN]

HandlerAgent(cfg, start) ==
    LET hero == get_heroes_by_rarity(cfg, "common")[1]
        agent == add_hero(cfg, AgentState(cfg, 1, "dolphin", 1, NoTests, FALSE), hero)
    IN  [agent EXCEPT !.energy = start.energy, !.gold = start.gold, !.gems = start.gems,
                      !.summon_tickets = start.summon_tickets,
                      !.heroes[hero].level = start.hero_level,
                      !.arena_attempts_today = start.arena_attempts_today,
                      !.guild_id = start.guild_id,
                      !.attacked_guild_boss_today = start.attacked_guild_boss_today,
                      !.ads_watched_today = start.ads_watched_today,
                      !.current_session_id = generate_session_id("A", 1),
                      !.current_session_start = 0]

HandlerGuilds(cfg, start) ==
    [g \in DOMAIN NewGuilds(cfg) |->
        IF start.guilds_full THEN [NewGuilds(cfg)[g] EXCEPT !.member_count = NewGuilds(cfg)[g].max_members]
        ELSE NewGuilds(cfg)[g]]

\* before and after are the handler state at the last call and at its
\* return
HandlerProbe(cfg, start) ==
    Then([a |-> HandlerAgent(cfg, start), ev |-> <<>>, day |-> 1, salt |-> "A", n |-> 0,
          t |-> 0, guilds |-> HandlerGuilds(cfg, start)], LAMBDA h :
        [op |-> "handlers", cfg |-> cfg,
         banners |-> _generate_banners(cfg.duration_days,
                                       <<get_heroes_by_rarity(cfg, "legendary")[1]>>),
         handler |-> "none", before |-> h, after |-> h, count |-> 0, calls |-> 0])

\* the pull loop of _do_gacha and the rest of it
RECURSIVE _do_gacha_pulls(_, _, _, _, _)
_do_gacha_pulls(cfg, rates_obj, h, g, d) ==
    IF g.i >= g.num_pulls THEN _do_gacha_finish(cfg, h, g.num_pulls)
    ELSE Then(_do_gacha_pull(cfg, rates_obj, h, g, d), LAMBDA r :
            _do_gacha_pulls(cfg, r.config_rates, r.h, [g EXCEPT !.i = @ + 1], d))

_do_gacha(cfg, banners, h, timestamp, d) ==
    Then(_do_gacha_begin(cfg, banners, h, timestamp, d), LAMBDA h1 :
    Then(gacha_pulls(cfg, banners, h, d), LAMBDA g :
        IF g.num_pulls = 0 THEN h1
        ELSE _do_gacha_pulls(cfg, cfg.gacha_rates, h1, g, d)))

\* the handler called at the clock of the probe with the draws d
Called(q, handler, h, d) ==
    IF handler = "play_stage" THEN _play_stage(q.cfg, h, h.t, d)
    ELSE IF handler = "upgrade_hero" THEN _upgrade_hero(q.cfg, h, h.t, d)
    ELSE IF handler = "do_gacha" THEN _do_gacha(q.cfg, q.banners, h, h.t, d)
    ELSE IF handler = "do_arena" THEN _do_arena(q.cfg, h, h.t, d)
    ELSE IF handler = "attack_guild_boss" THEN _attack_guild_boss(q.cfg, h, h.t, d)
    ELSE IF handler = "watch_ad" THEN _watch_ad(q.cfg, h, h.t, d)
    ELSE _join_guild(q.cfg, h, h.t, d)

HandlerCalled(q, handler, d) ==
    Then([q.after EXCEPT !.ev = <<>>, !.n = @ + Len(q.after.ev)], LAMBDA h :
        [q EXCEPT !.handler = handler, !.before = h, !.after = Called(q, handler, h, d),
                  !.calls = @ + 1])

\* the draws of a call: x decides the outcomes
HandlerDraws(q, x) ==
    [success |-> x, cos |-> x, duration |-> 30, limited |-> x, roll |-> 99, skip |-> x,
     uniform |-> Frac(6, 5), rank |-> 100, won |-> x,
     guild |-> IF available_guilds(q.after.guilds) = {} THEN 0
               ELSE CHOOSE g \in available_guilds(q.after.guilds) :
                       \A o \in available_guilds(q.after.guilds) : g <= o]

InitHandlers ==
    /\ simA = Idle("A") /\ simB = Idle("B")
    /\ \E start \in HandlerStarts : probe = HandlerProbe(Config, start)

CallHandler ==
    /\ probe.op = "handlers" /\ probe.calls < MaxHandlerCalls
    /\ \E handler \in Handlers, x \in Coin :
          probe' = HandlerCalled(probe, handler, HandlerDraws(probe, x))
    /\ UNCHANGED <<simA, simB>>

SpecHandlers == InitHandlers /\ [][CallHandler]_vars

(***************************************************************************)
(* Two Simulator instances built on one configuration object and run in    *)
(* one process, their steps interleaved.  probe holds what the instances   *)
(* share: the rates dict of the configuration.  An instance reads the dict *)
(* as it finds it and leaves it as its step leaves it.                     *)
(***************************************************************************)
MaxSharedActions == 2

\* one install that returns on its install day and summons with tickets,
\* the second time under the soft pity
ScenarioShared ==
    [cfg |-> [Config EXCEPT !.duration_days = PlayDays, !.total_installs = 1,
                            !.initial_summon_tickets = MaxSharedActions,
                            !.soft_pity_start = 1],
     explore |-> [profiles |-> {1}, plans |-> {<<0>>}, both |-> FALSE,
                  max_actions |-> MaxSharedActions, max_returns |-> 0, return_days |-> {},
                  gates |-> {3}]]

\* the states one step of run() can take the instance s to
StepsOf(s) ==
    UNION {
        IF CanInitialize(s) THEN {InitializeStep(s, d) : d \in InitializeDraws(s)} ELSE {},
        IF CanStartDay(s) THEN {StartDayStep(s)} ELSE {},
        IF CanFinish(s) THEN {FinishStep(s)} ELSE {},
        IF CanCreateInstall(s) THEN {CreateInstallStep(s, d) : d \in InstallDraws(s)} ELSE {},
        IF CanSkipChurned(s) THEN {SkipChurnedStep(s)} ELSE {},
        IF AtAgent(s)
        THEN {ReturnTodayStep(s, d) : d \in {e \in ReturnDraws(s) : CanReturnToday(s, e)}}
             \cup {NotReturnStep(s, d) : d \in {e \in NotReturnDraws(s) : CanNotReturn(s, e)}}
        ELSE {},
        IF CanEndDay(s) THEN {EndDayStep(s)} ELSE {},
        IF CanSessionStart(s) THEN {SessionStartStep(s, d) : d \in SessionStartDraws(s)}
        ELSE {},
        IF s.pc = "loop" /\ LoopContinues(s)
        THEN UNION {
                IF Chosen(s, 1) THEN {PlayStageStep(s, d) : d \in StageDraws(s)} ELSE {},
                IF Chosen(s, 2) THEN {UpgradeHeroStep(s, d) : d \in UpgradeDraws(s)} ELSE {},
                IF Chosen(s, 3) THEN {DoGachaStep(s, d) : d \in GachaDraws(s)} ELSE {},
                IF Chosen(s, 4) THEN {DoArenaStep(s, d) : d \in ArenaDraws(s)} ELSE {},
                IF Chosen(s, 5) THEN {AttackGuildBossStep(s, d) : d \in BossDraws(s)} ELSE {},
                IF Chosen(s, 6) THEN {JoinGuildStep(s, d) : d \in JoinDraws(s)} ELSE {},
                IF Chosen(s, 7) THEN {WatchAdStep(s, d) : d \in AdDraws(s)} ELSE {},
                IF Chosen(s, 8) THEN {BrowseShopStep(s, d) : d \in ShopDraws(s)} ELSE {},
                IF Chosen(s, 9) THEN {IdleTickStep(s, d) : d \in IdleDraws(s)} ELSE {} }
        ELSE {},
        IF CanGachaPull(s) THEN {GachaPullStep(s, d) : d \in PullDraws(s)} ELSE {},
        IF CanSessionEnd(s) THEN {SessionEndStep(s)} ELSE {},
        IF CanSnapshot(s) THEN {SnapshotStep(s)} ELSE {} }

SharedConfig(cfg) == [op |-> "shared", gacha_rates |-> cfg.gacha_rates]

\* the instance s as it finds the shared configuration
Sharing(s, shared) == [s EXCEPT !.gacha_rates = shared.gacha_rates]

InitShared ==
    /\ simA = Simulator(ScenarioShared.cfg, ScenarioShared.explore, "A")
    /\ simB = Simulator(ScenarioShared.cfg, ScenarioShared.explore, "B")
    /\ probe = SharedConfig(ScenarioShared.cfg)

RunA ==
    /\ probe.op = "shared"
    /\ \E t \in StepsOf(Sharing(simA, probe)) :
          /\ simA' = t
          /\ probe' = [probe EXCEPT !.gacha_rates = t.gacha_rates]
    /\ UNCHANGED simB

RunB ==
    /\ probe.op = "shared"
    /\ \E t \in StepsOf(Sharing(simB, probe)) :
          /\ simB' = t
          /\ probe' = [probe EXCEPT !.gacha_rates = t.gacha_rates]
    /\ UNCHANGED simA

NextShared == RunA \/ RunB

SpecShared == InitShared /\ [][NextShared]_vars

(***************************************************************************)
(* _do_gacha called on its own on agents of every type with tickets and    *)
(* gems around the costs of a pull.                                        *)
(***************************************************************************)
MaxSummons == 2

SummonStarts ==
    [agent_type : {"whale", "dolphin", "free_casual"},
     summon_tickets : {0, 1, 9, 10, 11},
     gems : {0, Config.gacha_single_cost - 1, Config.gacha_single_cost,
             Config.gacha_multi_cost - 1, Config.gacha_multi_cost,
             Config.gacha_multi_cost + Config.gacha_single_cost}]

SummonProbe(cfg, start) ==
    Then([a |-> [AgentState(cfg, 1, start.agent_type, 1, NoTests, FALSE)
                    EXCEPT !.summon_tickets = start.summon_tickets, !.gems = start.gems,
                           !.current_session_id = generate_session_id("A", 1),
                           !.current_session_start = 0],
          ev |-> <<>>, day |-> 1, salt |-> "A", n |-> 0, t |-> 0,
          guilds |-> NewGuilds(cfg)], LAMBDA h :
        [op |-> "summon", cfg |-> cfg,
         banners |-> _generate_banners(cfg.duration_days,
                                       <<get_heroes_by_rarity(cfg, "legendary")[1]>>),
         pull_info |-> get_gacha_pull_type(cfg, h.a), before |-> h, after |-> h,
         g |-> <<>>, d |-> <<>>, calls |-> 0])

\* get_gacha_pull_type and _do_gacha up to the pull loop, on the agent as
\* the last call left it; g holds the pulls still to do
SummonBegun(q, d) ==
    Then([q.after EXCEPT !.ev = <<>>, !.n = @ + Len(q.after.ev)], LAMBDA h :
    Then(gacha_pulls(q.cfg, q.banners, h, d), LAMBDA g :
        [q EXCEPT !.pull_info = get_gacha_pull_type(q.cfg, h.a), !.before = h,
                  !.after = _do_gacha_begin(q.cfg, q.banners, h, h.t, d),
                  !.g = IF g.num_pulls = 0 THEN <<>> ELSE g, !.d = d,
                  !.calls = @ + 1]))

\* one iteration of the pull loop, and the rest of _do_gacha after the last
SummonPulled(q) ==
    Then(_do_gacha_pull(q.cfg, q.cfg.gacha_rates, q.after, q.g, q.d), LAMBDA r :
    LET last == q.g.i + 1 >= q.g.num_pulls
    IN  [q EXCEPT !.after = IF last THEN _do_gacha_finish(q.cfg, r.h, q.g.num_pulls) ELSE r.h,
                  !.g = IF last THEN <<>> ELSE [q.g EXCEPT !.i = @ + 1]])

InitSummon ==
    /\ simA = Idle("A") /\ simB = Idle("B")
    /\ \E start \in SummonStarts : probe = SummonProbe(Config, start)

Summon ==
    /\ probe.op = "summon" /\ probe.g = <<>> /\ probe.calls < MaxSummons
    /\ \E x \in Coin, roll \in {20, 99} :
          probe' = SummonBegun(probe, [limited |-> x, duration |-> 10, roll |-> roll,
                                       cos |-> x])
    /\ UNCHANGED <<simA, simB>>

SummonPull ==
    /\ probe.op = "summon" /\ probe.g # <<>>
    /\ probe' = SummonPulled(probe)
    /\ UNCHANGED <<simA, simB>>

NextSummon == Summon \/ SummonPull

SpecSummon == InitSummon /\ [][NextSummon]_vars

(***************************************************************************)
(* The install plan of a run for every value of installs.distribution,     *)
(* with the bad-traffic scenario, and the installs created from it.        *)
(***************************************************************************)
MaxPlanInstalls == 7
MaxPlanDays == 4

RECURSIVE Power(_, _)
Power(b, e) == IF e = 0 THEN 1 ELSE b * Power(b, e - 1)

RECURSIVE SeqSum(_)
SeqSum(xs) == IF xs = <<>> THEN 0 ELSE xs[1] + SeqSum(Tail(xs))

\* math.exp(-decay_rate * d) for d = 0..duration-1 scaled by a common
\* factor: ratio = [n, d] is exp(-decay_rate)
decay_weights(ratio, duration) ==
    [i \in 1..duration |-> Power(ratio.n, i - 1) * Power(ratio.d, duration - i)]

\* the three branches of _calculate_install_distribution before bad traffic
distributed_installs(distribution, total, duration, ratio) ==
    IF distribution = "uniform" THEN _calculate_install_distribution(total, duration)
    ELSE IF distribution = "decay"
    THEN LET weights == decay_weights(ratio, duration)
             total_weight == SeqSum(weights)
             floors == [i \in 1..duration |-> (total * weights[i]) \div total_weight]
             diff == total - SeqSum(floors)
         IN  [i \in 1..duration |->
                 IF diff > 0 /\ i <= diff THEN floors[i] + 1
                 ELSE IF diff < 0 /\ i <= -diff THEN floors[i] - 1
                 ELSE floors[i]]
    ELSE [i \in 1..duration |-> total \div duration]

\* bad_traffic is <<>> (no scenario) or <<[day, volume]>>, day 0 for a
\* scenario without a "day" key
install_plan(distribution, total, duration, ratio, bad_traffic) ==
    LET plan == distributed_installs(distribution, total, duration, ratio)
    IN  IF bad_traffic = <<>> THEN plan
        ELSE LET bad_day == (IF bad_traffic[1].day = 0 THEN 25 ELSE bad_traffic[1].day) - 1
             IN  IF 0 <= bad_day /\ bad_day < duration
                 THEN [plan EXCEPT ![bad_day + 1] = @ + bad_traffic[1].volume]
                 ELSE plan

\* the numbers of normal and bad-traffic agents _create_daily_installs
\* creates on a day
daily_installs(installs_per_day, day_number, bad_traffic) ==
    LET num_installs == installs_per_day[day_number]
        is_bad_traffic_day == bad_traffic # <<>> /\ bad_traffic[1].day = day_number
        bad_installs == IF is_bad_traffic_day THEN bad_traffic[1].volume ELSE 0
        normal_installs == num_installs - bad_installs
    IN  [normal |-> IF normal_installs > 0 THEN normal_installs ELSE 0,
         bad |-> IF bad_installs > 0 THEN bad_installs ELSE 0]

InstallDistributions == {"uniform", "decay", "linear"}

DecayRatios == {[n |-> 1, d |-> 2], [n |-> 9, d |-> 10]}

BadTraffic(duration) ==
    {<<>>} \cup {<<[day |-> day, volume |-> volume]>> : day \in 0..(duration + 1), volume \in {0, 2}}

InitInstalls ==
    /\ simA = Idle("A") /\ simB = Idle("B")
    /\ \E distribution \in InstallDistributions, total \in 0..MaxPlanInstalls,
          duration \in 1..MaxPlanDays, ratio \in DecayRatios :
       \E bad_traffic \in BadTraffic(duration) :
          probe = [op |-> "installs", distribution |-> distribution, total |-> total,
                   duration |-> duration, ratio |-> ratio, bad_traffic |-> bad_traffic,
                   planned |-> FALSE, installs_per_day |-> <<>>, day_number |-> 0,
                   created |-> 0]

CalculateInstalls ==
    /\ probe.op = "installs" /\ ~probe.planned
    /\ probe' = [probe EXCEPT !.planned = TRUE,
                     !.installs_per_day = install_plan(probe.distribution, probe.total,
                                              probe.duration, probe.ratio, probe.bad_traffic)]
    /\ UNCHANGED <<simA, simB>>

CreateDailyInstalls ==
    /\ probe.op = "installs" /\ probe.planned /\ probe.day_number < probe.duration
    /\ LET n == daily_installs(probe.installs_per_day, probe.day_number + 1, probe.bad_traffic)
       IN  probe' = [probe EXCEPT !.day_number = @ + 1, !.created = @ + n.normal + n.bad]
    /\ UNCHANGED <<simA, simB>>

SpecInstalls == InitInstalls /\ [][CalculateInstalls \/ CreateDailyInstalls]_vars

(***************************************************************************)
(* Properties.                                                             *)
(***************************************************************************)
\* the part of an event that a run determines: everything but the uuids
Observable(e) ==
    [event_name |-> e.event_name, event_timestamp |-> e.event_timestamp,
     user_id |-> e.user_id, device |-> e.device, user_properties |-> e.user_properties,
     ab_tests |-> e.ab_tests, event_properties |-> e.event_properties]

\* C1: two runs of the same configuration fed the same draws have emitted,
\* after every step, the same events position by position: the same name,
\* timestamp, user id, device, user properties, A/B snapshot and event
\* properties; event_id and session_id are left out of the comparison
SameEventsBothRuns ==
    /\ Len(simA.emitted) = Len(simB.emitted)
    /\ \A k \in 1..Len(simA.emitted) : Observable(simA.emitted[k]) = Observable(simB.emitted[k])
    /\ simA.created = simB.created

SameEventsBothRunsWitness ==
    /\ simA.day_number >= 2
    /\ Len(simA.emitted) >= 2
    /\ \A k \in 1..Len(simA.emitted) :
          /\ simA.emitted[k].event_id # simB.emitted[k].event_id
          /\ simA.emitted[k].session_id # simB.emitted[k].session_id

\* the events of a sequence that belong to a user
EventsOf(events, user_id) == {k \in 1..Len(events) : events[k].user_id = user_id}

\* C2: a churned agent stays churned, none of its fields change in any step
\* and no event of the step carries its user id
ChurnedStaysSilent ==
    [][\A i \in 1..Len(simA.agents) :
          simA.agents[i].is_churned
              => /\ simA'.agents[i].is_churned
                 /\ simA'.agents[i] = simA.agents[i]
                 /\ EventsOf(simA'.emitted, simA.agents[i].user_id) = {}]_vars

ChurnedStaysSilentWitness ==
    /\ simA.pc = "agents"
    /\ \E i \in 1..Len(simA.agents) :
          /\ simA.agents[i].is_churned
          /\ simA.day_number > simA.agents[i].churn_date
          /\ simA.cur > i

\* C3: every pull of _do_gacha emits one gacha_summon; a legendary leaves
\* pity_counter at 0, any other rarity at its value before the pull plus 1,
\* and the event reports the counter before and after the pull
PityFollowsPull ==
    [][simA.pc = "pulls"
          => LET before == Cur(simA).pity_counter
                 after == simA'.agents[simA.cur].pity_counter
                 e == simA'.emitted[1]
             IN  /\ Len(simA'.emitted) = 1
                 /\ e.event_name = "gacha_summon"
                 /\ e.event_properties.hero_rarity = "legendary" => after = 0
                 /\ e.event_properties.hero_rarity # "legendary" => after = before + 1
                 /\ e.event_properties.pity_counter_before = before
                 /\ e.event_properties.pity_counter_after = after]_vars

PityFollowsPullWitness ==
    /\ simA.pc = "pulls"
    /\ Len(simA.emitted) = 1
    /\ simA.emitted[1].event_name = "gacha_summon"
    /\ simA.emitted[1].event_properties.summon_type = "multi_10"
    /\ simA.emitted[1].event_properties.summon_index > 1
    /\ simA.emitted[1].event_properties.hero_rarity = "legendary"
    /\ simA.emitted[1].event_properties.pity_counter_before > 0
    /\ Cur(simA).pity_counter = 0

\* C4: a roll made at pity_counter >= pity_threshold - 1 is legendary
\* whatever the draw, and pity_counter stays within 0 .. pity_threshold - 1
HardPity ==
    /\ \A i \in 1..Len(simA.agents) :
          /\ simA.agents[i].pity_counter \in 0..(simA.cfg.pity_threshold - 1)
          /\ simA.agents[i].pity_counter >= simA.cfg.pity_threshold - 1
                => \A value \in 0..99 :
                      roll_gacha(simA.cfg, simA.gacha_rates, simA.agents[i].pity_counter,
                                 value).rarity = "legendary"
    /\ \A k \in 1..Len(simA.emitted) :
          (/\ simA.emitted[k].event_name = "gacha_summon"
           /\ simA.emitted[k].event_properties.pity_counter_before
                 >= simA.cfg.pity_threshold - 1)
              => simA.emitted[k].event_properties.hero_rarity = "legendary"

HardPityWitness ==
    /\ Len(simA.emitted) = 1
    /\ simA.emitted[1].event_name = "gacha_summon"
    /\ simA.emitted[1].event_properties.pity_counter_before = simA.cfg.pity_threshold - 1
    /\ simA.emitted[1].event_properties.pity_counter_after = 0


\* the events that carry the team power of their agent, and the field
CarriesTeamPower == {"stage_start", "stage_fail", "guild_boss_attack", "player_state_snapshot"}

CarriedTeamPower(e) ==
    IF e.event_name = "arena_battle_start" THEN e.event_properties.player_power
    ELSE e.event_properties.team_power

\* C6: after every step team_power of every agent is the sum of the power of
\* the heroes of its team, and every event of the step that carries the team
\* power carries that sum
TeamPowerIsSum ==
    /\ \A i \in 1..Len(simA.agents) :
          simA.agents[i].team_power
              = team_sum(simA.cfg, simA.agents[i].heroes, simA.agents[i].team)
    /\ \A k \in 1..Len(simA.emitted) :
          simA.emitted[k].event_name \in CarriesTeamPower \cup {"arena_battle_start"}
              => CarriedTeamPower(simA.emitted[k])
                    = team_sum(simA.cfg, simA.agents[simA.emitted[k].user_id].heroes,
                               simA.agents[simA.emitted[k].user_id].team)

TeamPowerIsSumWitness ==
    /\ simA.pc = "loop"
    /\ \E k \in 1..Len(simA.emitted) :
          /\ simA.emitted[k].event_name = "hero_levelup"
          /\ simA.emitted[k].event_properties.power_after
                > simA.emitted[k].event_properties.power_before
          /\ \E j \in 1..Len(Cur(simA).team) :
                Cur(simA).team[j] = simA.emitted[k].event_properties.hero_id
    /\ Cur(simA).team_power > 0

IsEnergySink(e) == e.event_name = "economy_sink" /\ e.event_properties.currency = "energy"

\* C7: an agent whose energy is below stage_energy_cost passes the stage
\* gate under no draw and the step emits neither stage_start nor an energy
\* sink for it; every stage_start of a step directly follows an energy sink
\* of stage_energy_cost taken from a balance that was at least that cost
EnergyGatesStages ==
    [][/\ \A i \in 1..Len(simA.agents) :
             simA.agents[i].energy < simA.cfg.stage_energy_cost
                 => /\ \A value \in 0..99 : ~can_play_stage(simA.cfg, simA.agents[i], value)
                    /\ \A k \in EventsOf(simA'.emitted, simA.agents[i].user_id) :
                          /\ simA'.emitted[k].event_name # "stage_start"
                          /\ ~IsEnergySink(simA'.emitted[k])
       /\ \A k \in 1..Len(simA'.emitted) :
             simA'.emitted[k].event_name = "stage_start"
                 => /\ k > 1
                    /\ simA'.emitted[k].user_id \in 1..Len(simA.agents)
                    /\ IsEnergySink(simA'.emitted[k - 1])
                    /\ simA'.emitted[k - 1].user_id = simA'.emitted[k].user_id
                    /\ simA'.emitted[k - 1].event_properties.amount = simA.cfg.stage_energy_cost
                    /\ simA.agents[simA'.emitted[k].user_id].energy >= simA.cfg.stage_energy_cost
                    /\ simA'.emitted[k - 1].event_properties.balance_after
                          = simA.agents[simA'.emitted[k].user_id].energy
                                - simA.cfg.stage_energy_cost]_vars

\* an agent that has spent its energy on stages, in the session loop with
\* the gate of the stage still explored
EnergyGatesStagesWitness ==
    /\ simA.pc = "loop" /\ LoopContinues(simA)
    /\ simA.actions_left > 0 /\ 1 \in simA.explore.gates
    /\ Cur(simA).energy < simA.cfg.stage_energy_cost
    /\ Cur(simA).energy < simA.cfg.initial_energy
    /\ Selected(simA.cfg, Cur(simA), [i \in 1..8 |-> 0]) # 1

\* the agent can pay no pull: gems below the single cost and no tickets
Broke(cfg, agent) == agent.gems < cfg.gacha_single_cost /\ agent.summon_tickets = 0

IsGachaEvent(e) ==
    \/ e.event_name \in {"gacha_banner_view", "gacha_summon"}
    \/ e.event_name = "economy_sink" /\ e.event_properties.sink = "gacha_summon"

\* C8: an agent that can pay no pull, no summon being under way, passes the
\* gacha gate under no draw, has no pull type, and the step emits no
\* gacha_banner_view, gacha_summon sink or gacha_summon for it
NoGachaWithoutFunds ==
    [][\A i \in 1..Len(simA.agents) :
          (Broke(simA.cfg, simA.agents[i]) /\ simA.pc # "pulls")
              => /\ \A value \in 0..99 : ~should_do_gacha(simA.cfg, simA.agents[i], value)
                 /\ get_gacha_pull_type(simA.cfg, simA.agents[i]).type = "none"
                 /\ \A k \in EventsOf(simA'.emitted, simA.agents[i].user_id) :
                       ~IsGachaEvent(simA'.emitted[k])]_vars

\* an agent that has spent its gems on a summon, back in the session loop
\* with the gacha gate still explored
NoGachaWithoutFundsWitness ==
    /\ simA.pc = "loop" /\ LoopContinues(simA)
    /\ simA.actions_left > 0 /\ 3 \in simA.explore.gates
    /\ Broke(simA.cfg, Cur(simA))
    /\ Cur(simA).total_gacha_pulls > 0
    /\ Selected(simA.cfg, Cur(simA), [i \in 1..8 |-> 0]) # 3

\* the variant get_ab_group returns for a test and a user in run s, the
\* hash drawing the value fresh if it was not taken before
VariantOf(s, test_name, user_id, fresh) ==
    get_ab_group(md5(s.md5, test_name, user_id, fresh),
                 TestConfig(s.cfg, test_name).variants, TestConfig(s.cfg, test_name).weights)

\* C9: the variant recorded for an agent and a test is one of the variants
\* of the test, it is the variant get_ab_group returns when asked again at
\* any later point of the run, and no step changes it, in the agent or in
\* the A/B snapshot of an event of the agent
AssignmentSticky ==
    [][\A i \in 1..Len(simA.agents) : \A t \in DOMAIN simA.agents[i].ab_tests :
          /\ \E j \in 1..Len(TestConfig(simA.cfg, t).variants) :
                TestConfig(simA.cfg, t).variants[j] = simA.agents[i].ab_tests[t]
          /\ \A fresh \in HashValues :
                VariantOf(simA, t, simA.agents[i].user_id, fresh) = simA.agents[i].ab_tests[t]
          /\ t \in DOMAIN simA'.agents[i].ab_tests
          /\ simA'.agents[i].ab_tests[t] = simA.agents[i].ab_tests[t]
          /\ \A k \in EventsOf(simA'.emitted, simA.agents[i].user_id) :
                /\ t \in DOMAIN simA'.emitted[k].ab_tests
                /\ simA'.emitted[k].ab_tests[t] = simA.agents[i].ab_tests[t]]_vars

\* an agent in a session on a day after the one its late_game_offer variant
\* was drawn on, its onboarding_length variant drawn at its creation
AssignmentStickyWitness ==
    /\ simA.pc = "loop" /\ simA.emitted # <<>>
    /\ HasTest(Cur(simA), "late_game_offer") /\ HasTest(Cur(simA), "onboarding_length")
    /\ simA.day_number - Cur(simA).install_date > 30

RatesTotal(rates) == FSum(<<rates.legendary, rates.epic, rates.rare, rates.common>>)

AnchorsOrdered(retention) ==
    /\ FLeq(retention.d7, retention.d1)
    /\ FLeq(retention.d30, retention.d7)
    /\ FLeq(retention.d90, retention.d30)

\* C10: for an agent of a player type whose anchors satisfy d1 >= d7 >=
\* d30 >= d90, get_retention_probability is exactly 1 for day 0 and
\* P(day 1) >= P(day 7) >= P(day 30) >= P(day 90), the A/B retention
\* multipliers and the engagement modifiers being applied.
RetentionMonotone ==
    (probe.op = "retention"
     /\ AnchorsOrdered(probe.cfg.player_types[probe.agent.agent_type].retention))
        => /\ probe.at[0] = One
           /\ \A d, e \in DOMAIN probe.at \ {0} : d < e => FLeq(probe.at[e], probe.at[d])

\* an error of the list names the path
Named(errors, path) == \E i \in 1..Len(errors) : errors[i].path = path

\* C11: the list validate returns names player_types, installs.sources,
\* devices.platforms, devices.countries, gacha.rates or the A/B test
\* whenever the shares, rates or weights under that path sum to a value more
\* than 0.01 away from 1.0
SumsRejected ==
    (probe.op = "validator" /\ probe.calls > 0)
        => LET config == probe.v.config
               errors == probe.returned[1]
               types == Get(config, "player_types", EmptyDict)
               sources == Get(Get(config, "installs", EmptyDict), "sources", EmptyDict)
               platforms == Get(Get(config, "devices", EmptyDict), "platforms", EmptyDict)
               countries == Get(Get(config, "devices", EmptyDict), "countries", EmptyDict)
               rates == Get(Get(config, "gacha", EmptyDict), "rates", EmptyDict)
               tests == Get(config, "ab_tests", EmptyDict)
           IN  /\ OffOne(share_total(types, DOMAIN types)) => Named(errors, <<"player_types">>)
               /\ OffOne(share_total(sources, DOMAIN sources))
                     => Named(errors, <<"installs", "sources">>)
               /\ OffOne(SumValues(platforms, DOMAIN platforms))
                     => Named(errors, <<"devices", "platforms">>)
               /\ OffOne(SumValues(countries, DOMAIN countries))
                     => Named(errors, <<"devices", "countries">>)
               /\ OffOne(SumValues(rates, DOMAIN rates)) => Named(errors, <<"gacha", "rates">>)
               /\ \A t \in DOMAIN tests :
                     (Get(tests[t], "enabled", FALSE)
                      /\ OffOne(SumSeq(Get(tests[t], "weights", <<>>))))
                         => Named(errors, <<"ab_tests", t>>)

\* the replacements of a set that validate rejects when made alone
Rejected(F) == {f \in F : validate_config(WithFault(ValidRaw, f.name)) # <<>>}

\* C12: the list validate returns has at least one error for every rejected
\* replacement made in the configuration, the replacements being of
\* different entries; a second call returns the same list; and main, once
\* the configuration it validates has a violation, exits with code 1 without
\* a run directory, an OutputManager or a Simulator
AllViolationsReported ==
    /\ (probe.op = "validator" /\ probe.calls > 0)
          => /\ Len(probe.returned[1]) >= Cardinality(Rejected(probe.faults))
             /\ \A i \in 1..Len(probe.returned) : probe.returned[i] = probe.returned[1]
    /\ (probe.op = "cli" /\ probe.pc # "load" /\ validate_config(probe.config_dict) # <<>>)
          => /\ ~probe.run_dir /\ ~probe.output_manager /\ ~probe.simulator
             /\ probe.pc \in {"validate", "exit"}
             /\ probe.pc = "exit" => (probe.exit_code = 1 /\ probe.errors # <<>>)

AllViolationsReportedWitness ==
    /\ probe.op = "cli" /\ probe.pc = "exit" /\ probe.exit_code = 1
    /\ Cardinality(Rejected(probe.faults)) = 2
    /\ Len(probe.errors) >= 2
    /\ ~probe.options.validate_only /\ ~probe.options.dry_run
    /\ ~probe.run_dir /\ ~probe.output_manager /\ ~probe.simulator

Currencies == {"gold", "gems", "summon_tickets", "energy"}

\* the balance of a currency an agent holds
Balance(agent, currency) ==
    IF currency = "gold" THEN agent.gold
    ELSE IF currency = "gems" THEN agent.gems
    ELSE IF currency = "summon_tickets" THEN agent.summon_tickets
    ELSE agent.energy

IsLedger(e, user_id, currency) ==
    /\ e.event_name \in {"economy_source", "economy_sink"}
    /\ e.user_id = user_id
    /\ e.event_properties.currency = currency

\* what the economy events of a step add up to for one agent and currency:
\* sources count up, sinks count down
RECURSIVE LedgerDelta(_, _, _)
LedgerDelta(events, user_id, currency) ==
    IF events = <<>> THEN 0
    ELSE LET e == Head(events)
             amount == IF ~IsLedger(e, user_id, currency) THEN 0
                       ELSE IF e.event_name = "economy_source" THEN e.event_properties.amount
                       ELSE 0 - e.event_properties.amount
         IN  amount + LedgerDelta(Tail(events), user_id, currency)

\* the balance an agent has before a step: its initial balance when the
\* step creates it
BalanceBefore(s, i, currency) ==
    IF i <= Len(s.agents) THEN Balance(s.agents[i], currency)
    ELSE IF currency = "gold" THEN s.cfg.initial_gold
    ELSE IF currency = "gems" THEN s.cfg.initial_gems
    ELSE IF currency = "summon_tickets" THEN s.cfg.initial_summon_tickets
    ELSE s.cfg.initial_energy

\* C13: in every step, for every agent and each of gold, gems,
\* summon_tickets and energy, the change of the balance is the sum of the
\* amounts of the step's economy_source events less that of its
\* economy_sink events for that agent and currency, a changed balance has
\* such an event, and the last such event carries the balance after the step
LedgerMatchesBalances ==
    [][\A i \in 1..Len(simA'.agents) : \A currency \in Currencies :
          LET before == BalanceBefore(simA, i, currency)
              after == Balance(simA'.agents[i], currency)
              ledger == {k \in 1..Len(simA'.emitted) :
                            IsLedger(simA'.emitted[k], simA'.agents[i].user_id, currency)}
          IN  /\ after - before
                    = LedgerDelta(simA'.emitted, simA'.agents[i].user_id, currency)
              /\ after # before => ledger # {}
              /\ \A k \in ledger :
                    (\A j \in ledger : j <= k)
                        => simA'.emitted[k].event_properties.balance_after = after]_vars

LevelUps(ev) == {k \in 1..Len(ev) : ev[k].event_name = "player_levelup"}

\* C14: after an exp gain the agent has less exp than the next level
\* requires or is at the configured maximum level, the call emitted one
\* player_levelup per level crossed, in order, each with new_level =
\* old_level + 1 and exactly the features unlocked at new_level, and the
\* level is at most the configured maximum
LevelUpStopsAtConfiguredMax ==
    (probe.op = "level_up" /\ probe.gains > 0)
        => LET agent == probe.h.a
               ev == probe.h.ev
               crossed == agent.player_level - probe.before.player_level
           IN  /\ \/ agent.player_exp < get_exp_for_level(probe.cfg, agent.player_level + 1)
                  \/ agent.player_level = probe.cfg.player_level_max
               /\ LevelUps(ev) = 1..Len(ev) /\ Len(ev) = crossed /\ crossed >= 0
               /\ \A k \in 1..Len(ev) :
                     /\ ev[k].event_properties.old_level = probe.before.player_level + k - 1
                     /\ ev[k].event_properties.new_level
                           = ev[k].event_properties.old_level + 1
                     /\ ev[k].event_properties.unlocked_features
                           = {f \in DOMAIN probe.cfg.feature_unlocks :
                                 probe.cfg.feature_unlocks[f]
                                     = ev[k].event_properties.new_level}
               /\ agent.player_level <= probe.cfg.player_level_max

\* the number a sequence of decimal digits writes
RECURSIVE DigitsValue(_)
DigitsValue(digits) ==
    IF digits = <<>> THEN 0
    ELSE 10 * DigitsValue(SubSeq(digits, 1, Len(digits) - 1)) + digits[Len(digits)]

\* the order of two strings of digits as strings: the first place where
\* they differ decides, and a proper prefix comes first
RECURSIVE StrLess(_, _)
StrLess(a, b) ==
    IF b = <<>> THEN FALSE
    ELSE IF a = <<>> THEN TRUE
    ELSE IF Head(a) # Head(b) THEN Head(a) < Head(b)
    ELSE StrLess(Tail(a), Tail(b))

\* the k-th agent of the factory has the ids u_ and d_ followed by the
\* digits of k, six of them up to 999999 and as many as k has beyond
NumberedIds(q, i) ==
    LET k == q.start + i
        agent == q.agents[i]
    IN  /\ agent.user_id.prefix = "u_" /\ agent.device_id.prefix = "d_"
        /\ agent.user_id.digits = agent.device_id.digits
        /\ \A p \in 1..Len(agent.user_id.digits) : agent.user_id.digits[p] \in 0..9
        /\ DigitsValue(agent.user_id.digits) = k
        /\ Len(agent.user_id.digits) >= 6
        /\ Len(agent.user_id.digits) > 6 => agent.user_id.digits[1] # 0

\* C15 as stated: the k-th agent has the ids u_ and d_ followed by k filled
\* with zeros to 6 digits, whatever the draws, the install source and the
\* bot flag, and the user ids are pairwise distinct and, as strings, in the
\* order of creation
UserIdsOrdered ==
    probe.op = "factory"
        => \A i \in 1..Len(probe.agents) :
              /\ NumberedIds(probe, i)
              /\ \A j \in (i + 1)..Len(probe.agents) :
                    /\ probe.agents[i].user_id # probe.agents[j].user_id
                    /\ StrLess(probe.agents[i].user_id.digits, probe.agents[j].user_id.digits)

\* C15, amended: the same, the user ids being in the order of creation as
\* strings among the first 999999 agents of a factory
UserIdsOrderedUpToSixDigits ==
    probe.op = "factory"
        => \A i \in 1..Len(probe.agents) :
              /\ NumberedIds(probe, i)
              /\ \A j \in (i + 1)..Len(probe.agents) :
                    /\ probe.agents[i].user_id # probe.agents[j].user_id
                    /\ probe.start + j <= 999999
                          => StrLess(probe.agents[i].user_id.digits,
                                     probe.agents[j].user_id.digits)

\* a new factory has created three agents that differ in install source,
\* bot flag, player type and variant
UserIdsOrderedUpToSixDigitsWitness ==
    /\ probe.op = "factory" /\ probe.start = 0 /\ Len(probe.agents) = 3
    /\ probe.agents[1].install_source # probe.agents[2].install_source
    /\ probe.agents[1].is_bot # probe.agents[2].is_bot
    /\ probe.agents[2].agent_type # probe.agents[3].agent_type
    /\ probe.agents[1].ab_tests # probe.agents[3].ab_tests
    /\ probe.agents[3].user_id = [prefix |-> "u_", digits |-> <<0, 0, 0, 0, 0, 3>>]

\* the enabled tests of a configuration whose activation condition names
\* days_since_install
GatedTests(cfg) ==
    {t \in TestNames(cfg) : TestConfig(cfg, t).enabled /\ TestConfig(cfg, t).activation}

\* C16: an agent holds a variant of every enabled test without a
\* days_since_install condition from its creation on; a step that creates an
\* agent gives it no gated test; when _simulate_agent_day starts a day of an
\* agent on which the condition of an enabled gated test is met the agent
\* holds, from that step on, the variant the hash of the run gives; and no
\* event carries a gated test before the day its condition is met
GatedTestsAssignedWhenDue ==
    [][/\ \A i \in 1..Len(simA'.agents) :
             /\ \A t \in TestNames(simA.cfg) \ GatedTests(simA.cfg) :
                   TestConfig(simA.cfg, t).enabled => HasTest(simA'.agents[i], t)
             /\ i > Len(simA.agents)
                   => \A t \in GatedTests(simA.cfg) : ~HasTest(simA'.agents[i], t)
       /\ (simA.pc = "agents" /\ simA'.pc = "session")
             => \A t \in GatedTests(simA.cfg) :
                   simA'.day_number - Cur(simA').install_date
                         >= TestConfig(simA.cfg, t).days_since_install
                       => /\ HasTest(Cur(simA'), t)
                          /\ <<t, Cur(simA').user_id>> \in DOMAIN simA'.md5
                          /\ Cur(simA').ab_tests[t]
                                = get_ab_group(simA'.md5[<<t, Cur(simA').user_id>>],
                                               TestConfig(simA.cfg, t).variants,
                                               TestConfig(simA.cfg, t).weights)
       /\ \A k \in 1..Len(simA'.emitted) : \A t \in GatedTests(simA.cfg) :
             t \in DOMAIN simA'.emitted[k].ab_tests
                 => simA'.emitted[k].user_properties.days_since_install
                       >= TestConfig(simA.cfg, t).days_since_install]_vars

Members(agents, guild_id) == {i \in 1..Len(agents) : agents[i].guild_id = guild_id}

\* C17: every guild has 0 <= member_count <= max_members and as many
\* members as there are agents with its id as guild_id, and a guild_id that
\* is set stays as it is
GuildMembersCounted ==
    [][probe'.op = "guilds"
          => /\ \A g \in DOMAIN probe'.guilds :
                   /\ 0 <= probe'.guilds[g].member_count
                   /\ probe'.guilds[g].member_count <= probe'.guilds[g].max_members
                   /\ probe'.guilds[g].member_count
                         = Cardinality(Members(probe'.agents, g))
             /\ \A i \in 1..Len(probe.agents) :
                   probe.agents[i].guild_id # 0
                       => probe'.agents[i].guild_id = probe.agents[i].guild_id]_vars

\* guild 1 is full and a later agent has joined guild 2
GuildMembersCountedWitness ==
    /\ probe.op = "guilds"
    /\ probe.guilds[1].member_count = probe.guilds[1].max_members
    /\ Cardinality(Members(probe.agents, 1)) = 10
    /\ probe.guilds[2].member_count = 1
    /\ \E i \in 1..Len(probe.agents) : probe.agents[i].guild_id = 0

Hundred == Frac(100, 1)

\* the guild_boss_attack events of a step
BossAttacks(ev) == {k \in 1..Len(ev) : ev[k].event_name = "guild_boss_attack"}

\* C18: the hp of every boss is within 0..100 and is 100 when a day starts;
\* an attack that takes the hp that is left raises boss_level by exactly 1
\* and puts the hp back to 100, any other attack takes its damage off the hp
\* and leaves the level, and no step lowers a boss_level
BossHpResets ==
    [][(probe.op = "guilds" /\ probe'.op = "guilds")
          => /\ \A g \in DOMAIN probe'.guilds :
                   /\ FLeq(Frac(0, 1), probe'.guilds[g].boss_hp_remaining_pct)
                   /\ FLeq(probe'.guilds[g].boss_hp_remaining_pct, Hundred)
                   /\ probe'.day_calls = 0 => probe'.guilds[g].boss_hp_remaining_pct = Hundred
                   /\ probe.day_calls = 0 => probe.guilds[g].boss_hp_remaining_pct = Hundred
                   /\ probe'.guilds[g].boss_level >= probe.guilds[g].boss_level
             /\ \A k \in BossAttacks(probe'.emitted) :
                   LET g == probe'.emitted[k].event_properties.guild_id
                       damage_pct == Frac(probe'.emitted[k].event_properties.damage_dealt, 10000)
                       left == FAdd(probe.guilds[g].boss_hp_remaining_pct,
                                    Frac(0 - damage_pct.n, damage_pct.d))
                   IN  IF FLeq(left, Frac(0, 1))
                       THEN /\ probe'.guilds[g].boss_level = probe.guilds[g].boss_level + 1
                            /\ probe'.guilds[g].boss_hp_remaining_pct = Hundred
                       ELSE /\ probe'.guilds[g].boss_level = probe.guilds[g].boss_level
                            /\ probe'.guilds[g].boss_hp_remaining_pct = left
             /\ BossAttacks(probe'.emitted) = {}
                   => \A g \in DOMAIN probe'.guilds :
                         probe'.guilds[g].boss_level = probe.guilds[g].boss_level]_vars

\* the tenth attack of the first day has defeated the first boss of guild 1,
\* and on the next day an agent has hit the boss that followed
BossHpResetsWitness ==
    /\ probe.op = "guilds" /\ probe.day = 2
    /\ probe.guilds[1].boss_level = 2
    /\ FLess(probe.guilds[1].boss_hp_remaining_pct, Hundred)
    /\ BossAttacks(probe.emitted) # {}

\* the permanent-churn probability by the days an agent has been away
ChurnProbabilityByAbsence(absence) ==
    IF absence <= 7 THEN Frac(10, 100)
    ELSE IF absence <= 30 THEN Frac(30, 100)
    ELSE IF absence <= 60 THEN Frac(50, 100)
    ELSE Frac(70, 100)

\* C19: for an agent of the agent loop that is not churned and does not
\* return today, every draw churns the agent exactly when it is below the
\* probability that belongs to the days since the agent last played, and a
\* churned agent has is_churned and today as churn_date
ChurnByAbsence ==
    (AtAgent(simA) /\ ~Cur(simA).is_churned /\ Cur(simA).last_session_date # 0)
        => \A value \in 0..99 :
              LET after == NotReturnStep(simA, [value |-> 99, churn |-> value]).agents[simA.cur]
                  absence == simA.day_number - Cur(simA).last_session_date
              IN  /\ after.is_churned
                        <=> DrawBelow(value, ChurnProbabilityByAbsence(absence))
                  /\ after.is_churned => after.churn_date = simA.day_number

Limited(banners) == {i \in 1..Len(banners) : banners[i].banner_type = "limited"}

\* the dates of a run of so many days on which a banner is active
ActiveDates(banner, duration_days) ==
    {t \in 1..duration_days : is_active(banner, t)}

\* one standard banner; the limited banners numbered 1, 2, ... in the order
\* of their start dates; on every date of the run exactly one limited banner
\* active; every limited banner featuring a legendary hero of the catalog
BannersCoverRun(q) ==
    LET banners == q.banners
        legendary_heroes == get_heroes_by_rarity(Config, "legendary")
    IN  /\ Cardinality({i \in 1..Len(banners) : banners[i].banner_type = "standard"}) = 1
        /\ Limited(banners) = 2..Len(banners)
        /\ \A i \in Limited(banners) :
              /\ banners[i].banner_id = i - 1
              /\ \A j \in Limited(banners) :
                    i < j => banners[i].start_date < banners[j].start_date
              /\ \E k \in 1..Len(legendary_heroes) :
                    banners[i].featured_hero_id = legendary_heroes[k]
        /\ \A t \in 1..q.duration_days :
              Cardinality({i \in Limited(banners) : is_active(banners[i], t)}) = 1
        /\ q.current_date > 0 => Cardinality(q.active \cap Limited(banners)) = 1

\* C20: the banners cover the run as above, and every limited banner but
\* the last is active on 14 dates and the last on at most 14
BannersLastFourteenDays ==
    (probe.op = "banners" /\ probe.generated)
        => /\ BannersCoverRun(probe)
           /\ \A i \in Limited(probe.banners) :
                 LET days == Cardinality(ActiveDates(probe.banners[i], probe.duration_days))
                 IN  IF i < Len(probe.banners) THEN days = 14 ELSE days \in 1..14

\* C21: the events a step hands over are, for each agent, in the order of
\* their timestamps, the events of a session carry timestamps between the
\* session_start and the session_end of that session, and no session_start
\* reports a negative time since the last session
TraceInTimeOrder ==
    [][/\ \A k \in 1..Len(simA'.emitted) : \A l \in k..Len(simA'.emitted) :
             simA'.emitted[k].user_id = simA'.emitted[l].user_id
                 => /\ simA'.emitted[k].event_timestamp <= simA'.emitted[l].event_timestamp
                    /\ (simA'.emitted[k].event_name = "session_start"
                        /\ simA'.emitted[l].session_id = simA'.emitted[k].session_id)
                          => simA'.emitted[k].event_timestamp
                                <= simA'.emitted[l].event_timestamp
                    /\ (simA'.emitted[l].event_name = "session_end"
                        /\ simA'.emitted[l].session_id = simA'.emitted[k].session_id)
                          => simA'.emitted[k].event_timestamp
                                <= simA'.emitted[l].event_timestamp
       /\ \A k \in 1..Len(simA'.emitted) :
             simA'.emitted[k].event_name = "session_start"
                 => \A i \in 1..Len(simA'.emitted[k].event_properties.time_since_last_session_sec) :
                       simA'.emitted[k].event_properties.time_since_last_session_sec[i] >= 0]_vars

\* C22: the team of every agent holds at most 5 hero ids, no id twice and
\* each of them a key of the agent's heroes, and the guild_id of an agent
\* in a guild is the id of a guild of the world
TeamAndGuildKnown ==
    \A i \in 1..Len(simA.agents) :
        LET agent == simA.agents[i]
        IN  /\ Len(agent.team) <= 5
            /\ \A k \in 1..Len(agent.team) :
                  /\ agent.team[k] \in DOMAIN agent.heroes
                  /\ \A l \in 1..Len(agent.team) : agent.team[k] = agent.team[l] => k = l
            /\ agent.guild_id # 0 => agent.guild_id \in DOMAIN simA.guilds

\* an agent whose summons have filled its team, having drawn heroes it
\* owned already
TeamAndGuildKnownWitness ==
    \E i \in 1..Len(simA.agents) :
        /\ Len(simA.agents[i].team) = 5
        /\ simA.agents[i].total_gacha_pulls > 0
        /\ \E h \in DOMAIN simA.agents[i].heroes : simA.agents[i].heroes[h].duplicates > 0

\* C23: every iteration of the main loop of a session moves the clock of
\* the session forward: a step taken at the head of the loop while time
\* remains, other than the first part of a summon, leaves current_time
\* later than it was
LoopAdvancesClock ==
    [][(simA.pc = "loop" /\ LoopContinues(simA) /\ simA'.pc = "loop")
          => simA'.loc.current_time > simA.loc.current_time]_vars

\* whether the agent of h lacks what the handler needs
Unmet(cfg, handler, h) ==
    IF handler = "play_stage" THEN h.a.energy < cfg.stage_energy_cost
    ELSE IF handler = "upgrade_hero"
    THEN \A x \in DOMAIN h.a.heroes :
            h.a.heroes[x].level >= 100 \/ get_levelup_cost(h.a.heroes[x].level) > h.a.gold
    ELSE IF handler = "do_gacha"
    THEN h.a.summon_tickets < 1 /\ h.a.gems < cfg.gacha_single_cost
    ELSE IF handler = "do_arena"
    THEN h.a.arena_attempts_today <= 0 /\ h.a.gems < cfg.arena_attempt_cost_gems
    ELSE IF handler = "attack_guild_boss"
    THEN h.a.guild_id = 0 \/ h.a.attacked_guild_boss_today
    ELSE IF handler = "watch_ad" THEN h.a.ads_watched_today >= cfg.max_ads_per_day
    ELSE IF handler = "join_guild"
    THEN h.a.guild_id # 0
         \/ \A g \in DOMAIN h.guilds : h.guilds[g].member_count >= h.guilds[g].max_members
    ELSE FALSE

\* C24: a handler called without the resources or the precondition it
\* needs returns the clock it was given, emits no event and leaves the
\* agent and the guilds as they were
HandlersWithoutMeansDoNothing ==
    (probe.op = "handlers" /\ Unmet(probe.cfg, probe.handler, probe.before))
        => /\ probe.after.t = probe.before.t
           /\ probe.after.ev = <<>>
           /\ probe.after.a = probe.before.a
           /\ probe.after.guilds = probe.before.guilds

\* a second call that finds the agent without means after a first call
\* that spent them
HandlersWithoutMeansDoNothingWitness ==
    /\ probe.op = "handlers" /\ probe.calls = 2
    /\ probe.handler \in {"do_gacha", "join_guild", "watch_ad"}
    /\ Unmet(probe.cfg, probe.handler, probe.before)
    /\ probe.before.n > 0

\* the sum of the counts of a metadata table
RECURSIVE TableSum(_)
TableSum(d) ==
    IF DOMAIN d = {} THEN 0
    ELSE LET k == CHOOSE x \in DOMAIN d : TRUE
         IN  d[k] + TableSum([x \in DOMAIN d \ {k} |-> d[x]])

\* the events the emitter has created and not handed over yet are the last
\* ones created, and the output holds the ones before them, once each and
\* in the order of creation
HandedOverInOrder(s) ==
    /\ s.sink = [k \in 1..s.written |-> <<"evt", s.salt, k>>]
    /\ Len(s.buffer) = s.created - s.written
    /\ \A k \in 1..Len(s.buffer) : s.buffer[k].event_id = <<"evt", s.salt, s.written + k>>

\* C25: every event created goes to the output once and in the order of
\* creation; the buffer of the emitter is empty between sessions and when
\* the run has ended; the metadata count the events handed over, in total
\* and by type, and the agents created, in total, by source and by player
\* type
EventsAndInstallsCounted ==
    /\ HandedOverInOrder(simA)
    /\ simA.pc \in {"day", "installs", "agents", "session", "done"} => simA.buffer = <<>>
    /\ simA.metadata.total_events = Len(simA.sink)
    /\ simA.metadata.total_events = TableSum(simA.metadata.events_by_type)
    /\ simA.metadata.total_installs = Len(simA.agents)
    /\ simA.metadata.total_installs = TableSum(simA.metadata.installs_by_source)
    /\ simA.metadata.total_installs = TableSum(simA.metadata.installs_by_player_type)
    /\ simA.pc = "done" => simA.written = simA.created

\* a run that has ended with two agents of different player types, one of
\* which came back for a session
EventsAndInstallsCountedWitness ==
    /\ simA.pc = "done" /\ Len(simA.agents) = 2
    /\ simA.agents[1].agent_type # simA.agents[2].agent_type
    /\ \E i \in 1..2 : simA.agents[i].total_sessions > 1
    /\ simA.metadata.total_events > 20
    /\ "player_state_snapshot" \in DOMAIN simA.metadata.events_by_type

\* C26: two instances on one configuration share nothing that a step
\* changes: a step of one instance leaves the other instance and the
\* configuration as they were, and takes the instance where the same step
\* takes it in a run on its own
InstancesIndependent ==
    [][/\ probe' = probe
       /\ probe.gacha_rates = ScenarioShared.cfg.gacha_rates
       /\ simA' # simA => (simB' = simB /\ simA' \in StepsOf(simA))
       /\ simB' # simB => (simA' = simA /\ simB' \in StepsOf(simB))]_vars

\* both instances have finished, each after a summon under the soft pity
\* that the other instance's summons came between
InstancesIndependentWitness ==
    /\ probe.op = "shared"
    /\ simA.pc = "done" /\ simB.pc = "done"
    /\ simA.agents[1].total_gacha_pulls = 2 /\ simA.agents[1].pity_counter = 2
    /\ simB.agents[1].total_gacha_pulls = 2 /\ simB.agents[1].pity_counter = 2

\* the earliest of the session start times of the day
EarliestSession(times) ==
    times[CHOOSE k \in DOMAIN times : \A j \in DOMAIN times : times[k] <= times[j]]

Snapshots(events) == {k \in 1..Len(events) : events[k].event_name = "player_state_snapshot"}

EventsNamed(events, name) == {k \in 1..Len(events) : events[k].event_name = name}

\* the sessions agent u has started so far in s
SessionsBefore(s, u) == IF u \in 1..Len(s.agents) THEN s.agents[u].total_sessions ELSE 0

\* C28: the first event of an agent is the session_start of its first
\* session, on its install date, with is_first_session true and
\* session_number 1; that session holds the only tutorial_complete of the
\* agent; every later session_start has is_first_session false and the
\* session_number of the session before plus one
LifecycleStartsWithFirstSession ==
    [][/\ \A k \in EventsNamed(simA'.emitted, "session_start") :
             LET e == simA'.emitted[k]
                 before == SessionsBefore(simA, e.user_id)
             IN  /\ e.event_properties.session_number = before + 1
                 /\ e.event_properties.is_first_session = (before = 0)
                 /\ simA'.agents[e.user_id].total_sessions = before + 1
                 /\ EventsNamed(simA'.emitted, "session_start") = {k}
       /\ \A k \in EventsNamed(simA'.emitted, "tutorial_complete") :
             /\ SessionsBefore(simA, simA'.emitted[k].user_id) = 0
             /\ EventsNamed(simA'.emitted, "tutorial_complete") = {k}
       /\ Len(simA'.agents) > Len(simA.agents)
             => LET u == Len(simA'.agents)
                    e == simA'.emitted[1]
                IN  /\ Len(simA'.agents) = Len(simA.agents) + 1
                    /\ \A k \in 1..Len(simA'.emitted) : simA'.emitted[k].user_id = u
                    /\ e.event_name = "session_start"
                    /\ e.event_properties.is_first_session
                    /\ e.event_properties.session_number = 1
                    /\ e.event_timestamp \div 86400 = simA'.agents[u].install_date - 1
                    /\ EventsNamed(simA'.emitted, "tutorial_complete") # {}
       /\ \A k \in 1..Len(simA'.emitted) : simA'.emitted[k].user_id \in 1..Len(simA'.agents)]_vars

\* the third session of an agent starts
LifecycleStartsWithFirstSessionWitness ==
    \E k \in EventsNamed(simA.emitted, "session_start") :
        /\ simA.emitted[k].event_properties.session_number = 3
        /\ ~simA.emitted[k].event_properties.is_first_session
        /\ simA.agents[simA.emitted[k].user_id].tutorial_completed

\* the login streak of a returning agent follows the gap since its last
\* session
StreakFollowsGap ==
    (simA.pc = "agents" /\ simA'.pc = "session")
        => LET before == Cur(simA)
               after == simA'.agents[simA.cur]
               gap == simA.day_number - before.last_session_date
           IN  /\ gap = 1 => after.login_streak = before.login_streak + 1
               /\ gap > 1 => after.login_streak = 1

\* C29: when an agent returns, its login streak grows by one if its last
\* session was the day before and becomes 1 if it was longer ago; every
\* daily_login event reports a login streak of at least 1
LoginStreakAtLeastOne ==
    [][/\ StreakFollowsGap
       /\ \A k \in EventsNamed(simA'.emitted, "daily_login") :
             simA'.emitted[k].event_properties.login_streak >= 1]_vars

\* the pull the preference order gives for the tickets, gems and type of
\* an agent: <<currency, count, cost>>
PreferredPull(cfg, agent) ==
    IF agent.summon_tickets >= 10 THEN <<"tickets", 10, 10>>
    ELSE IF agent.gems >= cfg.gacha_multi_cost /\ agent.agent_type \in {"whale", "dolphin"}
    THEN <<"gems", 10, cfg.gacha_multi_cost>>
    ELSE IF agent.summon_tickets >= 1 THEN <<"tickets", 1, 1>>
    ELSE IF agent.gems >= cfg.gacha_single_cost THEN <<"gems", 1, cfg.gacha_single_cost>>
    ELSE <<"none", 0, 0>>

\* C30: the pull chosen is ten tickets, else ten pulls for gems for a
\* whale or a dolphin, else one ticket, else one pull for gems, else none;
\* the cost taken is within the balance of the currency chosen, the other
\* currency is left alone, and as many gacha_summon events follow as pulls
\* were chosen
PullTypeByPreference ==
    (probe.op = "summon" /\ probe.calls > 0 /\ probe.g = <<>>)
        => LET agent == probe.before.a
               left == probe.after.a
               pull == PreferredPull(probe.cfg, agent)
           IN  /\ probe.pull_info.currency = pull[1]
               /\ probe.pull_info.count = pull[2]
               /\ probe.pull_info.type
                     = (IF pull[2] = 10 THEN "multi" ELSE IF pull[2] = 1 THEN "single" ELSE "none")
               /\ pull[1] = "tickets"
                     => /\ pull[3] <= agent.summon_tickets
                        /\ left.summon_tickets = agent.summon_tickets - pull[3]
                        /\ left.gems = agent.gems
               /\ pull[1] = "gems"
                     => /\ pull[3] <= agent.gems
                        /\ left.gems = agent.gems - pull[3]
                        /\ left.summon_tickets = agent.summon_tickets
               /\ pull[1] = "none" => (left = agent /\ probe.after.ev = <<>>)
               /\ left.gems >= 0 /\ left.summon_tickets >= 0
               /\ Cardinality(EventsNamed(probe.after.ev, "gacha_summon")) = pull[2]
               /\ \A k \in EventsNamed(probe.after.ev, "gacha_summon") :
                     \A j \in 1..Len(probe.after.ev) :
                        (j < k /\ j \notin EventsNamed(probe.after.ev, "gacha_summon"))
                            => probe.after.ev[j].event_name \in {"gacha_banner_view",
                                                                 "economy_sink"}

\* a whale that had nine tickets and gems for ten pulls has summoned ten
\* times for gems and then once for a ticket
PullTypeByPreferenceWitness ==
    /\ probe.op = "summon" /\ probe.calls = 2 /\ probe.g = <<>>
    /\ probe.before.a.agent_type = "whale"
    /\ probe.before.a.summon_tickets = 9 /\ probe.after.a.summon_tickets = 8
    /\ probe.before.a.total_gacha_pulls = 10
    /\ probe.before.a.gems < probe.cfg.gacha_multi_cost

(***************************************************************************)
(* The tutorial.                                                           *)
(***************************************************************************)
\* the number of steps the variant of an event's agent has
StepsOfVariant(event) ==
    IF "onboarding_length" \in DOMAIN event.ab_tests
    THEN (IF event.ab_tests["onboarding_length"] = "short" THEN 4
          ELSE IF event.ab_tests["onboarding_length"] = "extended" THEN 12 ELSE 8)
    ELSE 8

RECURSIVE DurationsOf(_, _)
DurationsOf(events, ks) ==
    IF ks = {} THEN 0
    ELSE LET k == CHOOSE x \in ks : TRUE
         IN  events[k].event_properties.duration_sec + DurationsOf(events, ks \ {k})

\* the tutorial_step events of one step of the engine are those of one tutorial
TutorialOf(events, c) ==
    LET n == StepsOfVariant(events[c])
        steps == EventsNamed(events, "tutorial_step")
    IN  /\ Cardinality(steps) = n
        /\ \A k \in steps : k < c
        /\ \A k \in steps : \A j \in steps :
               k < j => events[k].event_properties.step_number < events[j].event_properties.step_number
        /\ {events[k].event_properties.step_number : k \in steps} = 1..n
        /\ \A k \in steps : events[k].event_properties.step_number <= 2
                               => ~events[k].event_properties.is_skipped
        /\ events[c].event_properties.steps_completed
               + events[c].event_properties.steps_skipped = n
        /\ events[c].event_properties.steps_completed
               = Cardinality({k \in steps : ~events[k].event_properties.is_skipped})
        /\ events[c].event_properties.total_duration_sec = DurationsOf(events, steps)

\* C31: a tutorial emits one tutorial_step per step of the variant's
\* sequence (4 for short, 12 for extended, 8 otherwise), numbered 1..n in
\* order, never skips the first two steps, and its tutorial_complete
\* reports steps_completed + steps_skipped = n and the sum of the step
\* durations
TutorialStepsMatchVariant ==
    /\ Cardinality(EventsNamed(simA.emitted, "tutorial_complete")) <= 1
    /\ EventsNamed(simA.emitted, "tutorial_step") # {}
           => EventsNamed(simA.emitted, "tutorial_complete") # {}
    /\ \A c \in EventsNamed(simA.emitted, "tutorial_complete") : TutorialOf(simA.emitted, c)

\* a short tutorial with a skipped step has been run
TutorialStepsMatchVariantWitness ==
    \E c \in EventsNamed(simA.emitted, "tutorial_complete") :
        /\ StepsOfVariant(simA.emitted[c]) = 4
        /\ simA.emitted[c].event_properties.steps_skipped = 1
        /\ simA.emitted[c].event_properties.steps_completed = 3

\* an extended tutorial with every step after the second skipped
TutorialExtendedSeen ==
    \E c \in EventsNamed(simA.emitted, "tutorial_complete") :
        /\ StepsOfVariant(simA.emitted[c]) = 12
        /\ simA.emitted[c].event_properties.steps_skipped = 10

(***************************************************************************)
(* The install plan.                                                       *)
(***************************************************************************)
\* the bad-traffic volume of a run whose bad-traffic day lies inside it
BadVolume(q) ==
    IF q.bad_traffic # <<>> /\ q.bad_traffic[1].day \in 1..q.duration
    THEN q.bad_traffic[1].volume ELSE 0

PlanConserves(q) ==
    /\ \A i \in 1..q.duration : q.installs_per_day[i] >= 0
    /\ SeqSum(q.installs_per_day) = q.total + BadVolume(q)

\* C32: for every value of installs.distribution the planned daily counts
\* are non-negative and sum to total_installs plus the bad-traffic volume of
\* a bad-traffic day inside the run, the uniform counts differ by at most 1,
\* and the agents created over the run are as many as planned
InstallPlanConservesTotal ==
    (probe.op = "installs" /\ probe.planned) =>
        /\ PlanConserves(probe)
        /\ (probe.distribution = "uniform" /\ BadVolume(probe) = 0) =>
               \A i, j \in 1..probe.duration :
                   probe.installs_per_day[i] - probe.installs_per_day[j] <= 1
        /\ probe.day_number = probe.duration => probe.created = SeqSum(probe.installs_per_day)

\* the same for the two distributions the engine names
NamedDistributionsConserveTotal ==
    (probe.op = "installs" /\ probe.distribution \in {"uniform", "decay"})
        => InstallPlanConservesTotal

\* whatever the distribution, the agents created are those planned
CreatedAsPlanned ==
    (probe.op = "installs" /\ probe.planned /\ probe.day_number = probe.duration)
        => probe.created = SeqSum(probe.installs_per_day)

(***************************************************************************)
(* Rewarded ads.                                                           *)
(***************************************************************************)
AdsBefore(s, u) == IF u \in 1..Len(s.agents) THEN s.agents[u].ads_watched_today ELSE 0

\* the events of an agent with a name
NamedEventsOf(events, u, name) == {k \in EventsNamed(events, name) : events[k].user_id = u}

AdRewards(events, u) ==
    {k \in NamedEventsOf(events, u, "economy_source") : events[k].event_properties.source = "ad_reward"}

\* C33: the ads an agent completes on a day (and the ad gem rewards) are at
\* most max_ads_per_day: every completed ad is counted in ads_watched_today,
\* which never exceeds max_ads_per_day and is only set back at the start of
\* the agent's day, and every ad_opportunity reports ads_available >= 1
AdsWithinDailyLimit ==
    [][\A u \in 1..Len(simA'.agents) :
          LET done == Cardinality(NamedEventsOf(simA'.emitted, u, "ad_completed"))
          IN  /\ Cardinality(AdRewards(simA'.emitted, u)) = done
              /\ simA'.agents[u].ads_watched_today <= simA'.cfg.max_ads_per_day
              /\ done > 0 => simA'.agents[u].ads_watched_today = AdsBefore(simA, u) + done
              /\ simA'.agents[u].ads_watched_today < AdsBefore(simA, u)
                     => /\ simA.pc = "agents" /\ simA'.pc = "session" /\ simA.cur = u
                        /\ simA'.agents[u].ads_watched_today = 0
              /\ \A k \in NamedEventsOf(simA'.emitted, u, "ad_opportunity") :
                     /\ simA'.emitted[k].event_properties.ads_available >= 1
                     /\ simA'.emitted[k].event_properties.ads_available
                            = simA'.cfg.max_ads_per_day - AdsBefore(simA, u)]_vars

\* an agent has completed the last ad of its day
AdsWithinDailyLimitWitness ==
    /\ simA.pc = "loop"
    /\ NamedEventsOf(simA.emitted, simA.cur, "ad_completed") # {}
    /\ Cur(simA).ads_watched_today = simA.cfg.max_ads_per_day

(***************************************************************************)
(* Campaign progression.                                                   *)
(***************************************************************************)
\* the stage after a stage, while chapters remain
NextStage(cfg, chapter, stage) ==
    IF stage < cfg.stages_per_chapter THEN <<chapter, stage + 1>>
    ELSE IF chapter < cfg.total_chapters THEN <<chapter + 1, 1>>
    ELSE <<chapter, stage>>

\* C34: the first successful completion of the agent's current stage is
\* reported with is_first_clear = true and moves current_stage and max_stage
\* to the next stage (to stage 1 of the next chapter after the last stage of
\* a chapter), and max_chapter/max_stage never decrease
FirstClearAdvances ==
    [][/\ \A k \in EventsNamed(simA'.emitted, "stage_complete") :
             LET e == simA'.emitted[k]
                 before == simA.agents[e.user_id]
                 after == simA'.agents[e.user_id]
                 next == NextStage(simA.cfg, before.current_chapter, before.current_stage)
             IN  before.total_stages_cleared = 0
                     => /\ e.event_properties.is_first_clear
                        /\ <<after.current_chapter, after.current_stage>> = next
                        /\ <<after.max_chapter, after.max_stage>> = next
       /\ \A u \in 1..Len(simA.agents) :
             \/ simA'.agents[u].max_chapter > simA.agents[u].max_chapter
             \/ /\ simA'.agents[u].max_chapter = simA.agents[u].max_chapter
                /\ simA'.agents[u].max_stage >= simA.agents[u].max_stage]_vars

(***************************************************************************)
(* Daily login.                                                            *)
(***************************************************************************)
LoginRewards(events, u) ==
    {k \in NamedEventsOf(events, u, "economy_source") :
        events[k].event_properties.source = "login_reward"}

\* daily_login is claimed in the first session of an agent's day, so an
\* agent whose last session was on a date has claimed on that date
ClaimedOn(s, u, date) == u \in 1..Len(s.agents) /\ s.agents[u].last_session_date = date

\* C35: for any agent and simulated date at most one daily_login (and one
\* login_reward economy_source) is emitted, the install date included, where
\* the first session already claims the login reward
OneDailyLoginPerDate ==
    [][\A u \in 1..Len(simA'.agents) :
          LET logins == NamedEventsOf(simA'.emitted, u, "daily_login")
          IN  /\ Cardinality(logins) <= 1
              /\ Cardinality(LoginRewards(simA'.emitted, u)) = Cardinality(logins)
              /\ logins # {} => ~ClaimedOn(simA, u, simA'.day_number)]_vars

\* the same on the dates after an agent's install
OneDailyLoginAfterInstallDate ==
    [][\A u \in 1..Len(simA'.agents) :
          simA'.agents[u].install_date # simA'.day_number
              => LET logins == NamedEventsOf(simA'.emitted, u, "daily_login")
                 IN  /\ Cardinality(logins) <= 1
                     /\ Cardinality(LoginRewards(simA'.emitted, u)) = Cardinality(logins)
                     /\ logins # {} => ~ClaimedOn(simA, u, simA'.day_number)]_vars

(***************************************************************************)
(* Energy.                                                                 *)
(***************************************************************************)
EnergyBefore(s, u) ==
    IF u \in 1..Len(s.agents) THEN s.agents[u].energy ELSE s.cfg.initial_energy

\* C37: no step increases an agent's energy: it starts at initial_energy,
\* stays <= max_energy and >= 0, and falls by stage_energy_cost with every
\* stage_start, so an agent emits at most initial_energy \div
\* stage_energy_cost stage_start events over the run
EnergyNeverReplenished ==
    [][\A u \in 1..Len(simA'.agents) :
          LET starts == Cardinality(NamedEventsOf(simA'.emitted, u, "stage_start"))
              agent == simA'.agents[u]
          IN  /\ agent.energy <= EnergyBefore(simA, u)
              /\ agent.energy = EnergyBefore(simA, u) - starts * simA'.cfg.stage_energy_cost
              /\ agent.energy >= 0
              /\ agent.energy <= agent.max_energy
              /\ (simA'.cfg.initial_energy - agent.energy) \div simA'.cfg.stage_energy_cost
                     <= simA'.cfg.initial_energy \div simA'.cfg.stage_energy_cost]_vars

\* an agent that spent energy on an earlier day has started another day
EnergyNeverReplenishedWitness ==
    /\ simA.pc = "session"
    /\ Cur(simA).install_date < simA.day_number
    /\ Cur(simA).energy < simA.cfg.initial_energy
    /\ Cur(simA).sessions_today = 0

(***************************************************************************)
(* Balances.                                                               *)
(***************************************************************************)
Solvent(agent) ==
    agent.gold >= 0 /\ agent.gems >= 0 /\ agent.summon_tickets >= 0 /\ agent.energy >= 0

Sinks(events) == EventsNamed(events, "economy_sink")

Held(agent, currency) ==
    IF currency = "gold" THEN agent.gold
    ELSE IF currency = "gems" THEN agent.gems
    ELSE IF currency = "summon_tickets" THEN agent.summon_tickets
    ELSE agent.energy

\* C36: every agent has gold, gems, summon_tickets and energy >= 0 and
\* every economy_sink reports balance_after >= 0: a handler (stage entry,
\* hero level-up, gacha single or multi pull, paid arena attempt) called
\* from any balance spends no more than the agent held at the call
NeverOverdrawn ==
    /\ \A u \in 1..Len(simA.agents) : Solvent(simA.agents[u])
    /\ \A k \in Sinks(simA.emitted) : simA.emitted[k].event_properties.balance_after >= 0
    /\ probe.op \in {"handlers", "summon"} =>
          /\ Solvent(probe.after.a)
          /\ \A k \in Sinks(probe.after.ev) :
                LET e == probe.after.ev[k].event_properties
                IN  /\ e.balance_after >= 0
                    /\ e.amount <= Held(probe.before.a, e.currency)
                    /\ e.balance_after = Held(probe.before.a, e.currency) - e.amount
                    /\ Sinks(probe.after.ev) = {k}

\* a handler has spent the last of a balance and the next call of a
\* spending handler has left the agent as it was
NeverOverdrawnWitness ==
    /\ probe.op = "handlers" /\ probe.calls = 2
    /\ probe.handler \in {"upgrade_hero", "do_gacha", "do_arena", "play_stage"}
    /\ probe.after = probe.before
    /\ \/ probe.handler = "play_stage" /\ probe.before.a.energy = 0
       \/ probe.handler = "do_arena" /\ probe.before.a.gems = 0
                                     /\ probe.before.a.arena_attempts_today = 0
       \/ probe.handler = "do_gacha" /\ probe.before.a.gems = 0
                                     /\ probe.before.a.summon_tickets = 0
       \/ probe.handler = "upgrade_hero"
             /\ probe.before.a.gold < Config.initial_gold /\ probe.before.a.gold > 0

(***************************************************************************)
(* Purchases.                                                              *)
(***************************************************************************)
\* what a purchase may change of an agent
PurchaseState(agent) ==
    <<agent.gems, agent.summon_tickets, agent.total_spent_usd, agent.purchase_count,
      agent.vip_points, agent.vip_level, agent.bought_starter_pack, agent.has_active_monthly>>

\* C38: a failed purchase emits iap_initiated then iap_failed and leaves
\* gems, summon_tickets, total_spent_usd, purchase_count, vip_points,
\* vip_level, bought_starter_pack and has_active_monthly unchanged; a
\* successful one increases purchase_count by exactly 1, reports
\* is_first_purchase exactly when it is the agent's first, and buys
\* starter_pack only for an agent that has not bought it
FailedPurchaseChangesNothing ==
    [][/\ \A k \in EventsNamed(simA'.emitted, "iap_initiated") :
             /\ k < Len(simA'.emitted)
             /\ simA'.emitted[k + 1].event_name \in {"iap_failed", "iap_purchase"}
             /\ simA'.emitted[k + 1].event_properties.product_id
                    = simA'.emitted[k].event_properties.product_id
             /\ EventsNamed(simA'.emitted, "iap_initiated") = {k}
       /\ \A k \in EventsNamed(simA'.emitted, "iap_failed") :
             LET u == simA'.emitted[k].user_id
             IN  /\ k > 1 /\ simA'.emitted[k - 1].event_name = "iap_initiated"
                 /\ PurchaseState(simA'.agents[u]) = PurchaseState(simA.agents[u])
                 /\ EventsNamed(simA'.emitted, "iap_purchase") = {}
       /\ \A k \in EventsNamed(simA'.emitted, "iap_purchase") :
             LET u == simA'.emitted[k].user_id
                 e == simA'.emitted[k].event_properties
             IN  /\ k > 1 /\ simA'.emitted[k - 1].event_name = "iap_initiated"
                 /\ simA'.agents[u].purchase_count = simA.agents[u].purchase_count + 1
                 /\ e.purchase_number = simA'.agents[u].purchase_count
                 /\ e.is_first_purchase = (simA.agents[u].purchase_count = 0)
                 /\ e.product_id = "starter_pack"
                        => /\ ~simA.agents[u].bought_starter_pack
                           /\ simA'.agents[u].bought_starter_pack
       /\ \A u \in 1..Len(simA.agents) :
             /\ simA.agents[u].bought_starter_pack => simA'.agents[u].bought_starter_pack
             /\ simA'.agents[u].purchase_count # simA.agents[u].purchase_count
                    => NamedEventsOf(simA'.emitted, u, "iap_purchase") # {}]_vars

\* a purchase has failed for an agent that had bought before
FailedPurchaseChangesNothingWitness ==
    /\ EventsNamed(simA.emitted, "iap_failed") # {}
    /\ Cur(simA).purchase_count = 1
    /\ Cur(simA).bought_starter_pack

(***************************************************************************)
(* Sessions and their events.                                              *)
(***************************************************************************)
\* the events of the session of the first event of a step, up to its
\* session_end if the step has one
CountedInStep(events) ==
    IF EventsNamed(events, "session_end") = {} THEN Len(events)
    ELSE (CHOOSE j \in EventsNamed(events, "session_end") : TRUE) - 1

\* the events an agent's open session had before a step
CountedBefore(s, events) ==
    IF events[1].event_name = "session_start" THEN 0
    ELSE s.agents[events[1].user_id].current_session_events

\* C39: the events_count of a session_end is the number of events emitted
\* for the agent with the session's id before it (session_start included),
\* current_session_id is null between sessions, and player_state_snapshot
\* is the only event with an empty session id
SessionEndCountsItsEvents ==
    [][/\ \A k \in 1..Len(simA'.emitted) :
             (simA'.emitted[k].session_id = <<>>)
                 = (simA'.emitted[k].event_name = "player_state_snapshot")
       /\ \A k \in EventsNamed(simA'.emitted, "session_start") : k = 1
       /\ (simA'.emitted # <<>> /\ simA'.emitted[1].event_name # "player_state_snapshot") =>
             LET u == simA'.emitted[1].user_id
                 sid == simA'.emitted[1].session_id
             IN  /\ \A k \in 1..Len(simA'.emitted) :
                        /\ simA'.emitted[k].user_id = u
                        /\ simA'.emitted[k].session_id = sid
                 /\ simA'.emitted[1].event_name = "session_start"
                        => /\ sid = generate_session_id(simA'.salt, simA'.sessions)
                           /\ simA'.sessions = simA.sessions + 1
                 /\ simA'.emitted[1].event_name # "session_start"
                        => simA.agents[u].current_session_id = sid
                 /\ \A j \in EventsNamed(simA'.emitted, "session_end") :
                        /\ j = Len(simA'.emitted)
                        /\ simA'.emitted[j].event_properties.events_count
                               = CountedBefore(simA, simA'.emitted) + j - 1
                        /\ simA'.agents[u].current_session_id = <<>>
                 /\ EventsNamed(simA'.emitted, "session_end") = {}
                        => /\ simA'.agents[u].current_session_id = sid
                           /\ simA'.agents[u].current_session_events
                                  = CountedBefore(simA, simA'.emitted) + Len(simA'.emitted)
       /\ \A u \in 1..Len(simA'.agents) :
             simA'.agents[u].current_session_id # <<>>
                 => u = simA'.cur /\ simA'.pc \in {"loop", "pulls"}]_vars

\* a session of several steps has ended with more events than its last step
SessionEndCountsItsEventsWitness ==
    \E j \in EventsNamed(simA.emitted, "session_end") :
        /\ simA.emitted[j].event_properties.events_count > Len(simA.emitted)
        /\ simA.emitted[j].event_properties.stages_played > 0
        /\ Cur(simA).current_session_id = <<>>

====
